---- MODULE Spec2Model ----
(***************************************************************************)
(* Model of the news monitor: the source failover chain                    *)
(* (news_source_manager.py), the two-stage enrichment pipeline and the     *)
(* polling loop (realtime_cctv_monitor.py).                                *)
(***************************************************************************)
EXTENDS Integers, Sequences, FiniteSets, TLC

(***************************************************************************)
(* Bounds of the model                                                     *)
(***************************************************************************)
MaxDay == 2
MaxLimit == 3
MaxUp == 3
MaxRestarts == 1
MaxRecs == 2
MaxCallTime == 20
MaxBatch == 2
MaxTicks == 3
MaxElapsed == 700
MaxSaves == 3
MaxFetchers == 2

(***************************************************************************)
(* Program constants                                                       *)
(***************************************************************************)
daily_limit == 50
MockSize == 10
MinRealItems == 3
AI_TIMEOUT == 60
RequestTimeout == 60
SettleDelay == 3
max_retries == 3
TruncLimit == 5
FallbackMax == 3
DefaultConfidence == 500
ConfidenceCap == 950
PolicyBoost == 100
HotBoost == 50
importance_threshold == 500
RetentionWindow == 7200
FetchTimeout == 90
ErrorWait == 60
HighStrength == 800
ScanIntervals == {300, 7190}
policy_keywords == <<"guowuyuan", "dangzhongyang", "xijinping", "liqiang", "yanghang",
                     "fagaiwei", "caizhengbu", "shangwubu", "gongxinbu", "zhengjianhui",
                     "yinbaojianhui", "zhongda", "jueding", "zhengce", "zhichi", "cujin",
                     "fazhan", "guihua">>

VARIABLES
    \* ---- failover chain (news_source_manager.py) ----
    today,              \* calendar date seen by datetime.now().date()
    toutiao_configured, \* NewsSourceManager.__init__: toutiao_api_key given
    daily_call_count,   \* ToutiaoNewsAdapter.daily_call_count
    last_reset_date,    \* ToutiaoNewsAdapter.last_reset_date
    count_file,         \* toutiao_api_count.json: "none", "corrupt" or [date, count]
    cpc,                \* position inside NewsSourceManager.get_latest_news
    limit,              \* the limit argument of the running call
    srcIdx,             \* index i of the for loop over self.sources
    called,             \* adapters whose get_latest_news ran in this call, in order
    served,             \* what each adapter returned in this call
    http_requests,      \* Toutiao HTTP requests issued in this call
    news_list,          \* value returned by get_latest_news (kind "raise": it raised)
    counted_calls,      \* Toutiao calls counted on the date today, those an earlier
                        \* run persisted included
    restarts,           \* constructions of the adapter after the first one
    toutiao_outcome,    \* how the Toutiao adapter was left in the current call
    \* ---- enrichment of one item (_analyze_with_ai_timeout) ----
    wpc,                \* position of the worker thread ai_analysis
    wt,                 \* seconds elapsed in the worker thread since it started
    rough_result,       \* stage-1 result held by _analyze_with_ai_enhanced
    retry_count,        \* loop variable of _execute_stage2_with_retry
    stage2_ret,         \* value returned by _execute_stage2_with_retry
    ai_log,             \* AI calls, attempts and sleeps of the worker, in order
    worker_result,      \* result_container['result']
    mpc,                \* position of the calling thread in _analyze_with_ai_timeout
    waited,             \* seconds the calling thread spent in ai_thread.join
    ai_result,          \* value returned by _analyze_with_ai_timeout
    news_item,          \* the item being enriched: what its title contains
    \* ---- polling loop (_monitoring_loop) ----
    lpc,                \* position of the monitoring thread in _monitoring_loop
    monitoring,         \* self.monitoring
    stop_event,         \* self.stop_event is set
    scan_interval,      \* self.scan_interval, seconds
    now,                \* wall clock, seconds since the monitor was constructed
    last_cleanup_time,  \* self.last_cleanup_time
    processed_news,     \* self.processed_news, the ledger of item identifiers
    latest_news,        \* the batch of the running tick
    idx,                \* position of the for loop in latest_news
    records,            \* identifiers of the items with a stored analysis record
    last_obs,           \* what the loop did with the item it observed last
    marked,             \* identifiers added to the ledger since the last purge
    ticks,              \* ticks started so far
    fetch_threads,      \* fetch threads started by the loop that are still alive
    oldest_insert,      \* the time the oldest entry of the ledger was added, -1: none
    \* ---- scoring (_compute_news_strength) ----
    sc_item,            \* the news item that is scored
    sc_now,             \* datetime.now(), in tenths of an hour
    sc_last,            \* the result of the latest call of _compute_news_strength
    sc_prev,            \* the result of the call before it
    \* ---- result store (_save_analysis_result, _update_daily_summary) ----
    st_records,         \* composites of the analysis records written today
    st_summary,         \* today's summary.json
    st_low,             \* new items of today scored below the threshold
    st_last,            \* what the latest save was given and did
    \* ---- fetch threads in ToutiaoNewsAdapter.get_latest_news ----
    fpc,                \* position of each fetch thread
    fread,              \* the counter value each thread read for += 1
    joined              \* the thread the loop is joining, 0: none

chainVars == <<today, toutiao_configured, daily_call_count, last_reset_date,
               count_file, cpc, limit, srcIdx, called, served, http_requests,
               news_list, counted_calls, restarts, toutiao_outcome>>

pipeVars == <<wpc, wt, rough_result, retry_count, stage2_ret, ai_log,
              worker_result, mpc, waited, ai_result, news_item>>

loopVars == <<lpc, monitoring, stop_event, scan_interval, now, last_cleanup_time,
              processed_news, latest_news, idx, records, last_obs, marked, ticks,
              fetch_threads, oldest_insert>>

scoreVars == <<sc_item, sc_now, sc_last, sc_prev>>

storeVars == <<st_records, st_summary, st_low, st_last>>

fetcherVars == <<fpc, fread, joined>>

vars == <<chainVars, pipeVars, loopVars, scoreVars, storeVars, fetcherVars>>

Min(a, b) == IF a <= b THEN a ELSE b
Max(a, b) == IF a >= b THEN a ELSE b

\* Python values of a call result: None, a list, a raised exception, or not returned yet
None == [kind |-> "None", items |-> <<>>]
Raise == [kind |-> "raise", items |-> <<>>]
ListV(s) == [kind |-> "list", items |-> s]
NotReturned == [kind |-> "pending", items |-> <<>>]

\* contents of toutiao_api_count.json
NoFile == [state |-> "none", date |-> 0, count |-> 0]
CorruptFile == [state |-> "corrupt", date |-> 0, count |-> 0]
CountFile(d, c) == [state |-> "ok", date |-> d, count |-> c]

(***************************************************************************)
(* Failover chain                                                          *)
(***************************************************************************)

\* NewsSourceManager.__init__: Toutiao first when an API key is given, then CCTV
sources == IF toutiao_configured THEN <<"toutiao", "cctv">> ELSE <<"cctv">>

\* a batch of n items fetched from src
Batch(src, n) == ListV([i \in 1..n |-> <<src, i>>])

\* list truthiness test of the manager: news_list and len(news_list) > 0
NonEmpty(b) == b.kind = "list" /\ Len(b.items) > 0

\* a defect of the load: the date of the file is not compared with today
_load_daily_count_AnyDate(file, date) ==
    IF file.state # "ok" THEN 0 ELSE file.count

\* ToutiaoNewsAdapter._load_daily_count
_load_daily_count(file, date) ==
    IF file.state # "ok" THEN 0
    ELSE IF file.date = date THEN file.count ELSE 0

\* the file after _load_daily_count (it rewrites a file dated another day)
_load_daily_count_file(file, date) ==
    IF file.state # "ok" THEN file
    ELSE IF file.date = date THEN file ELSE CountFile(date, 0)

\* ToutiaoNewsAdapter._save_daily_count
_save_daily_count(date, count) == CountFile(date, count)

\* a defect of the day check: the counter is never reset
QuotaCount_NoReset == daily_call_count

\* ToutiaoNewsAdapter.is_quota_available: the counter after the day check
QuotaCount == IF today # last_reset_date THEN 0 ELSE daily_call_count
QuotaFile == IF today # last_reset_date THEN _save_daily_count(today, 0) ELSE count_file
is_quota_available == QuotaCount < daily_limit

\* outcomes of the HTTP request of ToutiaoNewsAdapter.get_latest_news
ToutiaoOutcomes ==
    {[kind |-> k, n |-> 0] : k \in {"timeout", "neterror", "http_error", "bad_json", "no_news"}}
    \cup {[kind |-> "ok", n |-> u] : u \in 1..MaxUp}

\* a defect of the counting: only a response with news is counted
ResponseReceived_OkOnly(o) == o.kind = "ok"

\* lines 108-116: a response was received (requests.get did not raise)
ResponseReceived(o) == o.kind \notin {"timeout", "neterror"}

\* ToutiaoNewsAdapter.get_latest_news: the value returned after the request
ToutiaoReturn(o, lim) ==
    IF o.kind = "ok" THEN Batch("toutiao", Min(o.n, lim)) ELSE None

\* outcomes of one real CCTV source (_parse_cctv_homepage, _parse_cctv_api_fixed)
\* the number of items found, or CrawlExc when the source raised
CrawlExc == -1
CrawlOutcomes == {CrawlExc} \cup (0..MaxUp)

\* news_list and len(news_list) >= 3
CrawlOk(o, lim) == o # CrawlExc /\ Min(o, lim) >= MinRealItems

\* CCTVNewsCrawler._get_high_quality_mock_news
_get_high_quality_mock_news(lim) == Batch("mock", Min(MockSize, lim))

\* CCTVNewsCrawler.get_latest_news
CrawlerReturn(home, api, lim) ==
    IF CrawlOk(home, lim) THEN Batch("cctv_home", Min(home, lim))
    ELSE IF CrawlOk(api, lim) THEN Batch("cctv_api", Min(api, lim))
    ELSE _get_high_quality_mock_news(lim)

\* CCTVNewsAdapter.get_latest_news: an empty list is reported as None
CCTVReturn(home, api, lim) ==
    LET b == CrawlerReturn(home, api, lim) IN IF Len(b.items) > 0 THEN b ELSE None

\* a defect of the manager: nothing is returned when all sources failed
AllFailedReturn_None == None

\* the value get_latest_news returns when no adapter delivered
AllFailedReturn == ListV(<<>>)

\* entry of NewsSourceManager.get_latest_news
Manager_Start ==
    /\ cpc = "idle"
    /\ \E lim \in 0..MaxLimit : limit' = lim
    /\ cpc' = "loop"
    /\ srcIdx' = 1
    /\ called' = <<>>
    /\ served' = <<>>
    /\ http_requests' = 0
    /\ news_list' = NotReturned
    /\ toutiao_outcome' = "none"
    /\ UNCHANGED <<counted_calls, restarts, today, toutiao_configured, daily_call_count, last_reset_date, count_file>>
    /\ UNCHANGED <<pipeVars, loopVars, scoreVars, storeVars, fetcherVars>>

\* a defect of the manager: the loop goes on after a non-empty batch
Manager_After_NoReturn(src, ret) ==
    /\ called' = Append(called, src)
    /\ served' = Append(served, ret)
    /\ news_list' = IF NonEmpty(ret) THEN ret ELSE news_list
    /\ cpc' = cpc
    /\ srcIdx' = srcIdx + 1

\* the manager's handling of what an adapter returned: a non-empty list is
\* returned at once; None, an empty list or an exception moves to the next source
Manager_After(src, ret) ==
    /\ called' = Append(called, src)
    /\ served' = Append(served, ret)
    /\ IF NonEmpty(ret)
       THEN /\ news_list' = ret
            /\ cpc' = "returned"
            /\ srcIdx' = srcIdx
       ELSE /\ news_list' = news_list
            /\ cpc' = cpc
            /\ srcIdx' = srcIdx + 1

\* a defect of the quota check: the request is sent and counted although the
\* quota is exhausted
Manager_ToutiaoNoQuota_Calls ==
    /\ cpc = "loop" /\ srcIdx <= Len(sources) /\ sources[srcIdx] = "toutiao"
    /\ ~is_quota_available
    /\ daily_call_count' = QuotaCount + 1
    /\ last_reset_date' = today
    /\ count_file' = _save_daily_count(today, QuotaCount + 1)
    /\ http_requests' = http_requests + 1
    /\ counted_calls' = counted_calls + 1
    /\ toutiao_outcome' = "refused"
    /\ Manager_After("toutiao", None)
    /\ UNCHANGED <<restarts, today, toutiao_configured, limit>>
    /\ UNCHANGED <<pipeVars, loopVars, scoreVars, storeVars, fetcherVars>>

\* loop iteration on the Toutiao adapter, quota exhausted: continue
Manager_ToutiaoNoQuota ==
    /\ cpc = "loop" /\ srcIdx <= Len(sources) /\ sources[srcIdx] = "toutiao"
    /\ ~is_quota_available
    /\ daily_call_count' = QuotaCount
    /\ last_reset_date' = today
    /\ count_file' = QuotaFile
    /\ toutiao_outcome' = "refused"
    /\ srcIdx' = srcIdx + 1
    /\ UNCHANGED <<counted_calls, restarts, today, toutiao_configured, cpc, limit, called, served,
                   http_requests, news_list>>
    /\ UNCHANGED <<pipeVars, loopVars, scoreVars, storeVars, fetcherVars>>

\* loop iteration on the Toutiao adapter, quota available: the adapter is called
Manager_ToutiaoFetch ==
    /\ cpc = "loop" /\ srcIdx <= Len(sources) /\ sources[srcIdx] = "toutiao"
    /\ is_quota_available
    /\ \E o \in ToutiaoOutcomes :
         /\ last_reset_date' = today
         /\ http_requests' = http_requests + 1
         /\ IF ResponseReceived(o)
            THEN /\ daily_call_count' = QuotaCount + 1
                 /\ count_file' = _save_daily_count(today, QuotaCount + 1)
            ELSE /\ daily_call_count' = QuotaCount
                 /\ count_file' = QuotaFile
         /\ counted_calls' = IF ResponseReceived(o) THEN counted_calls + 1 ELSE counted_calls
         /\ toutiao_outcome' = o.kind
         /\ Manager_After("toutiao", ToutiaoReturn(o, limit))
    /\ UNCHANGED <<restarts, today, toutiao_configured, limit>>
    /\ UNCHANGED <<pipeVars, loopVars, scoreVars, storeVars, fetcherVars>>

\* loop iteration on the CCTV adapter
Manager_CCTVFetch ==
    /\ cpc = "loop" /\ srcIdx <= Len(sources) /\ sources[srcIdx] = "cctv"
    /\ \E home \in CrawlOutcomes, api \in CrawlOutcomes :
         Manager_After("cctv", CCTVReturn(home, api, limit))
    /\ UNCHANGED <<counted_calls, restarts, toutiao_outcome, today, toutiao_configured, daily_call_count, last_reset_date,
                   count_file, limit, http_requests>>
    /\ UNCHANGED <<pipeVars, loopVars, scoreVars, storeVars, fetcherVars>>

\* all sources failed: return []
Manager_AllFailed ==
    /\ cpc = "loop" /\ srcIdx > Len(sources)
    /\ news_list' = AllFailedReturn
    /\ cpc' = "returned"
    /\ UNCHANGED <<counted_calls, restarts, toutiao_outcome, today, toutiao_configured, daily_call_count, last_reset_date,
                   count_file, limit, srcIdx, called, served, http_requests>>
    /\ UNCHANGED <<pipeVars, loopVars, scoreVars, storeVars, fetcherVars>>

\* the caller takes the result; the manager is ready for the next call
Manager_Done ==
    /\ cpc = "returned"
    /\ cpc' = "idle"
    /\ UNCHANGED <<counted_calls, restarts, toutiao_outcome, today, toutiao_configured, daily_call_count, last_reset_date,
                   count_file, limit, srcIdx, called, served, http_requests,
                   news_list>>
    /\ UNCHANGED <<pipeVars, loopVars, scoreVars, storeVars, fetcherVars>>

\* the process is started again: NewsSourceManager.__init__ constructs a new
\* ToutiaoNewsAdapter, which reads toutiao_api_count.json
Restart ==
    /\ cpc = "idle"
    /\ toutiao_configured
    /\ restarts < MaxRestarts
    /\ restarts' = restarts + 1
    /\ daily_call_count' = _load_daily_count(count_file, today)
    /\ count_file' = _load_daily_count_file(count_file, today)
    /\ last_reset_date' = today
    /\ limit' = 0
    /\ srcIdx' = 1
    /\ called' = <<>>
    /\ served' = <<>>
    /\ http_requests' = 0
    /\ news_list' = NotReturned
    /\ toutiao_outcome' = "none"
    /\ UNCHANGED <<today, toutiao_configured, cpc, counted_calls>>
    /\ UNCHANGED <<pipeVars, loopVars, scoreVars, storeVars, fetcherVars>>

\* midnight passes
DayChange ==
    /\ today < MaxDay
    /\ cpc = "idle"
    /\ today' = today + 1
    /\ counted_calls' = 0
    /\ UNCHANGED <<restarts, toutiao_outcome, toutiao_configured, daily_call_count, last_reset_date, count_file,
                   cpc, limit, srcIdx, called, served, http_requests, news_list>>
    /\ UNCHANGED <<pipeVars, loopVars, scoreVars, storeVars, fetcherVars>>

(***************************************************************************)
(* Scoring: RealtimeCCTVAIMonitor._compute_news_strength                   *)
(* Sub-scores are held in thousandths, the composite in units of 1/100000, *)
(* times in tenths of an hour.                                             *)
(***************************************************************************)

\* line 60-65: self.news_source_weights, and the default of line 1235
news_source_weights(source) ==
    IF source = "cctv_news" THEN 950
    ELSE IF source = "cctv_news_api" THEN 900
    ELSE IF source = "toutiao_news" THEN 850
    ELSE 800

\* a news item as the scoring reads it
\*   publish: "missing" (absent, empty or 'None'), "unparseable" (a string
\*   strptime rejects), "parsed" (a time, at), "bad_type" (a value that is
\*   neither a string nor a datetime)
\*   hits: policy keywords in title and content; title_len: len(title)
\*   continuity: a continuity keyword occurs in title and content
ScoreItem(publish, at, source, hits, title_len, continuity) ==
    [publish |-> publish, at |-> at, source |-> source, hits |-> hits,
     title_len |-> title_len, continuity |-> continuity]

\* the items scored by the model
ScoreItems ==
    {ScoreItem(pk[1], pk[2], src, hits, len, c) :
        pk \in {<<"missing", 0>>, <<"unparseable", 0>>, <<"bad_type", 0>>,
                <<"parsed", 0>>, <<"parsed", 30>>},
        src \in {"cctv_news", "unknown"},
        hits \in {0, 3, Len(policy_keywords)},
        len \in {0, 40},
        c \in BOOLEAN}

\* the wall-clock times at which the model scores
ClockPoints == {0, 10, 20, 60, 70, 240, 250, 640, 650, MaxElapsed}

\* lines 1204-1216: elapsed time since publication, tenths of an hour
hours_diff(item, t) == IF item.publish = "parsed" THEN t - item.at ELSE 0

\* a defect of the recency tiers: the tiers of 6 h and 24 h are exchanged
recency_Swapped(h) ==
    IF h <= 10 THEN 1000
    ELSE IF h <= 60 THEN 600
    ELSE IF h <= 240 THEN 800
    ELSE Max(200, 600 - (h - 240))

\* lines 1218-1226: the recency sub-score
recency(h) ==
    IF h <= 10 THEN 1000
    ELSE IF h <= 60 THEN 800
    ELSE IF h <= 240 THEN 600
    ELSE Max(200, 600 - (h - 240))

\* a defect of the policy strength: no cap at 1.0
policy_strength_NoCap(hits) == hits * 150

\* line 1239: policy_strength = min(1.0, policy_hits * 0.15)
policy_strength(hits) == Min(1000, hits * 150)

\* line 1241: hardness = 0.7 * source_weight + 0.3 * policy_strength
hardness(item) ==
    (700 * news_source_weights(item.source) + 300 * policy_strength(item.hits)) \div 1000

\* lines 1249-1252: persistence; 0.3 * min(1.0, len(title) / 30.0) is
\* min(0.3, len(title) / 100)
persistence(item) ==
    Min(1000, 500 + Min(300, 10 * item.title_len) + (IF item.continuity THEN 200 ELSE 0))

\* a defect of the weights: 0.33, 0.33, 0.34
total_strength_Shifted(r, h, p) == 33 * r + 33 * h + 34 * p

\* line 1255: total_strength = 0.34 * recency + 0.33 * hardness + 0.33 * persistence
total_strength(r, h, p) == 34 * r + 33 * h + 33 * p

\* the dictionary _compute_news_strength returns; status "error": the except
\* branch of lines 1268-1270, which returns 0.5 without sub-scores
ScoreResult(status, r, h, p, total, elapsed) ==
    [status |-> status, recency |-> r, hardness |-> h, persistence |-> p,
     total_strength |-> total, hours_since_publish |-> elapsed]

NoScore == ScoreResult("none", 0, 0, 0, 0, 0)

\* _compute_news_strength([item]) called at the time t
_compute_news_strength(item, t) ==
    IF item.publish = "bad_type"
    THEN ScoreResult("error", 0, 0, 0, 50000, 0)
    ELSE LET h == hours_diff(item, t)
             r == recency(h)
             hd == hardness(item)
             p == persistence(item)
         IN ScoreResult("ok", r, hd, p, total_strength(r, hd, p), h)

\* the composite rounded to three decimals, in thousandths
Round3(total) == (total + 50) \div 100

\* the wall clock advances
Score_Tick ==
    /\ \E t \in ClockPoints : t > sc_now /\ sc_now' = t
    /\ UNCHANGED <<sc_item, sc_last, sc_prev>>
    /\ UNCHANGED <<chainVars, pipeVars, loopVars, storeVars, fetcherVars>>

\* line 184: scores = self._compute_news_strength([news])
Score_Call ==
    /\ sc_last' = _compute_news_strength(sc_item, sc_now)
    /\ sc_prev' = sc_last
    /\ UNCHANGED <<sc_item, sc_now>>
    /\ UNCHANGED <<chainVars, pipeVars, loopVars, storeVars, fetcherVars>>

\* the scoring variables while the scoring is not being modelled
ScoreIdle ==
    /\ sc_item = ScoreItem("missing", 0, "unknown", 0, 0, FALSE)
    /\ sc_now = 0
    /\ sc_last = NoScore
    /\ sc_prev = NoScore

(***************************************************************************)
(* Result store: _save_analysis_result and _update_daily_summary           *)
(*   composites in thousandths; average_strength is the fraction           *)
(*   avg_num / avg_den                                                     *)
(***************************************************************************)

\* summary.json of one day; exists: the file has been written
Summary(exists, total, analyzed, important, num, den, recs) ==
    [exists |-> exists, total_news |-> total, ai_analyzed |-> analyzed,
     important_news |-> important, avg_num |-> num, avg_den |-> den,
     ai_recommendations_count |-> recs]

\* lines 1409-1419: the summary a day starts with
NewSummary == Summary(FALSE, 0, 0, 0, 0, 1, 0)

\* composites of the items that are saved (at or above the threshold)
SavedStrengths == {importance_threshold, HighStrength, 950}

\* what one save was given: the terminal state its result stands for, the
\* length of the final list of the result, the length of the list line 1434
\* reads, whether line 1434 must or may raise, and whether the record and
\* the summary were written
SaveEvent(outcome, final, counted, must, may, rec, summ) ==
    [outcome |-> outcome, final |-> final, counted |-> counted,
     must_raise |-> must, may_raise |-> may, record_written |-> rec,
     summary_written |-> summ]

NoSave == SaveEvent("none", 0, 0, FALSE, FALSE, FALSE, FALSE)

\* the fetch threads the loop has started and not seen finish
Fetchers == 1..MaxFetchers

\* the fetcher variables while no fetch thread is being modelled
FetchersIdle ==
    /\ fpc = [f \in Fetchers |-> "idle"]
    /\ fread = [f \in Fetchers |-> 0]
    /\ joined = 0

\* the store variables while the store is not being modelled
StoreIdle ==
    /\ st_records = <<>>
    /\ st_summary = NewSummary
    /\ st_low = 0
    /\ st_last = NoSave

(***************************************************************************)
(* Enrichment pipeline: _analyze_with_ai_timeout and its worker thread     *)
(***************************************************************************)

\* confidences are held in thousandths; Absent: the key is missing,
\* NonNumeric: float() raises on the value
Absent == -1
NonNumeric == -2
ConfValues == {700, 900, 1000}

\* one recommendation entry; id is its position in the list the AI returned
Rec(i, c, cs, h, e) ==
    [id |-> i, confidence |-> c, confidence_score |-> cs, hot |-> h, fallback_enhanced |-> e]

\* recommendation entries the stage-1 AI may return at position i
Stage1Recs(i) ==
    {Rec(i, c, Absent, h, FALSE) : c \in ConfValues \cup {Absent, NonNumeric}, h \in BOOLEAN}

\* the recommendations lists of a stage-1 response, up to MaxRecs entries
RoughRecLists ==
    UNION {{s \in [1..n -> UNION {Stage1Recs(i) : i \in 1..n}] :
                \A i \in 1..n : s[i].id = i} : n \in 0..MaxRecs}

\* a result dictionary: the keys the pipeline and its callers read
\*   status, analysis_method, stage2_status: "absent" when the key is missing
\*   has_recs / has_final: the keys recommendations / final_recommendations exist
Result(st, method, st2, hr, r, hf, f, fu, s2f) ==
    [status |-> st, analysis_method |-> method, stage2_status |-> st2,
     has_recs |-> hr, recommendations |-> r,
     has_final |-> hf, final_recommendations |-> f,
     fallback_used |-> fu, stage2_fallback |-> s2f]

NoResult == Result("pending", "absent", "absent", FALSE, <<>>, FALSE, <<>>, FALSE, FALSE)

\* rough_result: the stage-1 value; kind tells what generate_stock_recommendations gave
\*   "json": a parsed dict, "error": {'status': 'error'}, "parse_error"/"text_format":
\*   unparseable content, "empty": a falsy value, "malformed": not a dict, or a
\*   dict whose recommendations is not a list
Rough(kind, recs, wf) == [kind |-> kind, recommendations |-> recs, well_formed |-> wf]

NoRough == Rough("pending", <<>>, TRUE)

\* an entry of ai_log
\*   ev: "stage1", "legacy", "settle", "backoff", "attempt"
\*   k: retry_count for backoff and attempt; at: worker time when it started
\*   dur: seconds it took; res: what the AI call gave; ok: attempt accepted;
\*   ai: an HTTP request to the AI service was made
Event(ev, k, at, dur, res, ok, ai) ==
    [ev |-> ev, k |-> k, at |-> at, dur |-> dur, res |-> res, ok |-> ok, ai |-> ai]

\* outcomes of generate_stock_recommendations (stage 1 and the legacy call)
AIOutcomes == {"json", "malformed", "empty", "parse_error", "text_format",
               "http_error", "exception", "timeout"}

\* generate_stock_recommendations: the dict it returns for an outcome
generate_stock_recommendations(o, recs, wf) ==
    IF o \in {"http_error", "exception", "timeout"} THEN Rough("error", <<>>, TRUE)
    ELSE IF o = "json" THEN Rough("json", recs, wf)
    ELSE Rough(o, <<>>, TRUE)

\* seconds an AI call with the given outcome may take
CallTimes(o) == IF o = "timeout" THEN {RequestTimeout} ELSE {1, MaxCallTime}

\* rough_result as a result dictionary (the raw AI dictionary)
RawResult(r) ==
    IF r.kind = "json"
    THEN Result("absent", "absent", "absent", TRUE, r.recommendations, FALSE, <<>>, FALSE, FALSE)
    ELSE Result(r.kind, "absent", "absent", FALSE, <<>>, FALSE, <<>>, FALSE, FALSE)

\* line 369: not rough_result or rough_result.get('status') == 'error'
Stage1Rejected(r) == r.kind \in {"empty", "error"}

\* keys of keyword_stocks in dictionary order
FallbackKeywords == <<"bank", "new_energy", "tech", "infra">>

\* the title of the item being enriched: whether it holds one of the
\* policy-authority terms of line 967, and which keys of keyword_stocks
NewsTitle(policy, keywords) == [policy |-> policy, keywords |-> keywords]

\* the titles enriched by the model
NewsTitles ==
    {NewsTitle(FALSE, {}), NewsTitle(TRUE, {}), NewsTitle(FALSE, {"bank"}),
     NewsTitle(TRUE, {"tech", "infra"}), NewsTitle(FALSE, {"new_energy", "bank"})}

RECURSIVE FirstKeyword(_, _)
\* index of the first keyword of the table occurring in the title, 0 if none
FirstKeyword(title, i) ==
    IF i > Len(FallbackKeywords) THEN 0
    ELSE IF FallbackKeywords[i] \in title THEN i
    ELSE FirstKeyword(title, i + 1)

\* recommendations[:3]
Take(s, n) == SubSeq(s, 1, Min(n, Len(s)))

\* a defect of the keyword lookup: no placeholder when no keyword occurs
_generate_fallback_recommendations_NoDefault(title) ==
    LET k == FirstKeyword(title, 1)
        recs == IF k > 0
                THEN <<Rec(2 * k - 1, Absent, 600, FALSE, FALSE), Rec(2 * k, Absent, 600, FALSE, FALSE)>>
                ELSE <<>>
    IN Result("fallback_success", "keyword_fallback", "absent",
              TRUE, Take(recs, FallbackMax), TRUE, Take(recs, FallbackMax), FALSE, FALSE)

\* _generate_fallback_recommendations; title is the set of table keywords in the title
_generate_fallback_recommendations(title) ==
    LET k == FirstKeyword(title, 1)
        recs == IF k > 0
                THEN <<Rec(2 * k - 1, Absent, 600, FALSE, FALSE), Rec(2 * k, Absent, 600, FALSE, FALSE)>>
                ELSE <<Rec(1, Absent, 500, FALSE, FALSE)>>
    IN Result("fallback_success", "keyword_fallback", "absent",
              TRUE, Take(recs, FallbackMax), TRUE, Take(recs, FallbackMax), FALSE, FALSE)

\* float(rec.get('confidence', 0.5))
OriginalConfidence(rec) == IF rec.confidence = Absent THEN DefaultConfidence ELSE rec.confidence

\* the rule adjustment of one entry in _fallback_refined_result
Enhance(rec, policy) ==
    LET boost == (IF policy THEN PolicyBoost ELSE 0) + (IF rec.hot THEN HotBoost ELSE 0)
    IN [rec EXCEPT !.confidence = Min(ConfidenceCap, OriginalConfidence(rec) + boost),
                   !.fallback_enhanced = TRUE]

RECURSIVE InsertDesc(_, _)
\* x placed in front of the first entry whose confidence is not larger
InsertDesc(x, s) ==
    IF s = <<>> THEN <<x>>
    ELSE IF Head(s).confidence > x.confidence THEN <<Head(s)>> \o InsertDesc(x, Tail(s))
    ELSE <<x>> \o s

RECURSIVE SortByConfidence(_)
\* list.sort(key=confidence, reverse=True): stable, largest first
SortByConfidence(s) ==
    IF s = <<>> THEN <<>> ELSE InsertDesc(Head(s), SortByConfidence(Tail(s)))

\* a defect of the last resort: the entries it returns are marked as enhanced
_fallback_refined_result_Marked(r, policy) ==
    LET recs == r.recommendations
        head == Take(recs, TruncLimit)
    IN IF recs = <<>>
       THEN Result("absent", "absent", "failed", FALSE, <<>>, TRUE, <<>>, FALSE, FALSE)
       ELSE IF \E i \in 1..Len(head) : head[i].confidence = NonNumeric
       THEN Result("absent", "absent", "basic_fallback", FALSE, <<>>, TRUE,
                   [i \in 1..Len(recs) |-> [recs[i] EXCEPT !.fallback_enhanced = TRUE]],
                   FALSE, FALSE)
       ELSE Result("absent", "absent", "fallback_enhanced", FALSE, <<>>, TRUE,
                   SortByConfidence([i \in 1..Len(head) |-> Enhance(head[i], policy)]),
                   FALSE, FALSE)

\* _fallback_refined_result; policy: rough_result['news_title'], a key of the
\* stage-1 dictionary the AI returned, holds a policy term
_fallback_refined_result(r, policy) ==
    LET recs == r.recommendations
        head == Take(recs, TruncLimit)
    IN IF recs = <<>>
       THEN Result("absent", "absent", "failed", FALSE, <<>>, TRUE, <<>>, FALSE, FALSE)
       ELSE IF \E i \in 1..Len(head) : head[i].confidence = NonNumeric
       THEN Result("absent", "absent", "basic_fallback", FALSE, <<>>, TRUE, recs, FALSE, FALSE)
       ELSE Result("absent", "absent", "fallback_enhanced", FALSE, <<>>, TRUE,
                   SortByConfidence([i \in 1..Len(head) |-> Enhance(head[i], policy)]),
                   FALSE, FALSE)

\* outcomes of the HTTP request in _call_ai_for_refined_analysis
Stage2Outcomes == {"refined", "no_final", "not_json", "short", "http_error",
                   "conn_error", "timeout"}

\* _call_ai_for_refined_analysis returns None for these
Stage2NoResponse == {"short", "http_error", "conn_error", "timeout"}

\* the final_recommendations list of a well-formed stage-2 response
RefinedRecs(n) == [i \in 1..n |-> Rec(i, Absent, 900, FALSE, FALSE)]

\* _ai_refined_analysis: the dictionary it returns
_ai_refined_analysis(o, n, r, policy) ==
    IF o \in Stage2NoResponse THEN _fallback_refined_result(r, policy)
    ELSE IF o = "refined"
    THEN Result("absent", "absent", "success", FALSE, <<>>, TRUE, RefinedRecs(n), FALSE, FALSE)
    ELSE Result("absent", "absent", "success", FALSE, <<>>, TRUE, <<>>, FALSE, FALSE)

\* line 443: final_result and final_result.get('status') != 'error'
AttemptAccepted(res) == res.status # "error"

\* lines 445-447: an accepted result without recommendations takes the stage-1 list
EnsureRecommendations(res, r) ==
    IF res.final_recommendations = <<>>
    THEN [res EXCEPT !.final_recommendations = r.recommendations, !.stage2_fallback = TRUE]
    ELSE res

\* a defect of the backoff: every sleep takes 2 s
BackoffDelay_Fixed(k) == 2

\* line 426: delay = 2 ** retry_count
BackoffDelay(k) == 2 ^ k

\* lines 394-409: the result of _analyze_with_ai_enhanced after stage 2
MergeStage2(ret, r) ==
    IF ret.status # "None"
    THEN [ret EXCEPT !.analysis_method = "two_stage"]
    ELSE Result("absent", "quick", "absent", TRUE, r.recommendations,
                TRUE, r.recommendations, TRUE, FALSE)

\* lines 377-381: stage 1 without recommendations
RoughOnlyResult(r) ==
    [RawResult(r) EXCEPT !.analysis_method = "single_stage", !.has_final = TRUE,
                         !.final_recommendations = <<>>]

NoneResult == Result("None", "absent", "absent", FALSE, <<>>, FALSE, <<>>, FALSE, FALSE)

\* line 354: the dictionary returned when the worker is still alive
TimeoutResult == Result("timeout", "absent", "absent", FALSE, <<>>, FALSE, <<>>, FALSE, FALSE)

\* a defect of the join: no timeout, the caller waits for the worker
JoinWait_Unbounded(t) == t

\* ai_thread.join(timeout=60): seconds the caller waits for a worker that
\* finishes after t seconds
JoinWait(t) == Min(t, AI_TIMEOUT)

\* is_alive() after the join: the worker hangs or has not finished before the
\* timeout (a worker finishing exactly at the timeout may be seen either way)
StillAlive(pc, t) == pc = "hung" \/ t >= AI_TIMEOUT

\* a defect of the wrapper: the dictionary the caller got is the one the
\* worker writes its result into
ReturnedAfter_Aliased(returned, late, was_returned, done) ==
    IF was_returned /\ done THEN late ELSE returned

\* lines 334-340 and 353-357: the worker stores its result in
\* result_container, a dictionary of the call; the value the caller has
\* returned is another object and stays as it is
ReturnedAfter(returned, late, was_returned, done) == returned

workerVars == <<wpc, wt, rough_result, retry_count, stage2_ret, ai_log, worker_result>>

\* a defect of the gate: stage 2 is entered whatever stage 1 delivered
EntersStage2_Always(r) == TRUE

\* lines 373-384: stage 2 is entered when stage 1 has at least one recommendation
EntersStage2(r) == Len(r.recommendations) > 0

\* stage 1: analyze_news_with_theme_classification, lines 367-381 and 412-417
Worker_Stage1 ==
    /\ wpc = "stage1"
    /\ \E o \in AIOutcomes, recs \in RoughRecLists, wf \in BOOLEAN :
       \E d \in CallTimes(o) :
         LET r == generate_stock_recommendations(o, recs, wf)
             title == news_item.keywords
         IN
         /\ o # "json" => (recs = <<>> /\ wf)
         /\ (o = "json" /\ recs = <<>>) => wf
         /\ rough_result' = r
         /\ wt' = wt + d
         /\ ai_log' = Append(ai_log, Event("stage1", 0, wt, d, o, ~Stage1Rejected(r), TRUE))
         /\ IF Stage1Rejected(r)
            THEN wpc' = "legacy" /\ worker_result' = worker_result
            ELSE IF r.kind = "malformed"
            THEN wpc' = "done" /\ worker_result' = _generate_fallback_recommendations(title)
            ELSE IF ~EntersStage2(r)
            THEN wpc' = "done" /\ worker_result' = RoughOnlyResult(r)
            ELSE wpc' = "settle" /\ worker_result' = worker_result
    /\ ai_result' = ReturnedAfter(ai_result, worker_result', mpc = "returned", wpc' = "done")
    /\ UNCHANGED <<retry_count, stage2_ret, mpc, waited>>
    /\ UNCHANGED news_item
    /\ UNCHANGED <<chainVars, loopVars, scoreVars, storeVars, fetcherVars>>

\* an AI request that never returns
Worker_Hang ==
    /\ wpc \in {"stage1", "legacy", "attempt"}
    /\ wpc = "attempt" => (retry_count < max_retries /\ rough_result.well_formed)
    /\ wpc' = "hung"
    /\ UNCHANGED <<wt, rough_result, retry_count, stage2_ret, ai_log, worker_result,
                   mpc, waited, ai_result>>
    /\ UNCHANGED news_item
    /\ UNCHANGED <<chainVars, loopVars, scoreVars, storeVars, fetcherVars>>

\* stage 1 rejected: _analyze_with_ai calls the AI once more and returns its dictionary
Worker_Legacy ==
    /\ wpc = "legacy"
    /\ \E o \in AIOutcomes, recs \in RoughRecLists :
       \E d \in CallTimes(o) :
         LET r == generate_stock_recommendations(o, recs, TRUE) IN
         /\ o # "json" => recs = <<>>
         /\ wt' = wt + d
         /\ ai_log' = Append(ai_log, Event("legacy", 0, wt, d, o, TRUE, TRUE))
         /\ worker_result' = RawResult(r)
         /\ wpc' = "done"
    /\ ai_result' = ReturnedAfter(ai_result, worker_result', mpc = "returned", wpc' = "done")
    /\ UNCHANGED <<rough_result, retry_count, stage2_ret, mpc, waited>>
    /\ UNCHANGED news_item
    /\ UNCHANGED <<chainVars, loopVars, scoreVars, storeVars, fetcherVars>>

\* line 389: time.sleep(3) before stage 2
Worker_Settle ==
    /\ wpc = "settle"
    /\ wt' = wt + SettleDelay
    /\ ai_log' = Append(ai_log, Event("settle", 0, wt, SettleDelay, "sleep", TRUE, FALSE))
    /\ retry_count' = 0
    /\ wpc' = "attempt"
    /\ UNCHANGED <<rough_result, stage2_ret, worker_result, mpc, waited, ai_result>>
    /\ UNCHANGED news_item
    /\ UNCHANGED <<chainVars, loopVars, scoreVars, storeVars, fetcherVars>>

\* the log after the backoff sleep of iteration k
AfterBackoff(k) ==
    IF k > 0
    THEN Append(ai_log, Event("backoff", k, wt, BackoffDelay(k), "sleep", TRUE, FALSE))
    ELSE ai_log

\* worker time after the backoff sleep of iteration k
TimeAfterBackoff(k) == IF k > 0 THEN wt + BackoffDelay(k) ELSE wt

\* one iteration of the loop of _execute_stage2_with_retry whose prompt cannot be built
Worker_AttemptNoPrompt ==
    /\ wpc = "attempt" /\ retry_count < max_retries
    /\ ~rough_result.well_formed
    /\ wt' = TimeAfterBackoff(retry_count)
    /\ ai_log' = Append(AfterBackoff(retry_count),
                        Event("attempt", retry_count, TimeAfterBackoff(retry_count), 0,
                              "no_prompt", FALSE, FALSE))
    /\ retry_count' = retry_count + 1
    /\ UNCHANGED <<wpc, rough_result, stage2_ret, worker_result, mpc, waited, ai_result>>
    /\ UNCHANGED news_item
    /\ UNCHANGED <<chainVars, loopVars, scoreVars, storeVars, fetcherVars>>

\* one iteration of the loop of _execute_stage2_with_retry with an AI request
Worker_Attempt ==
    /\ wpc = "attempt" /\ retry_count < max_retries
    /\ rough_result.well_formed
    /\ \E o \in Stage2Outcomes, n \in 1..MaxRecs, policy \in BOOLEAN :
       \E d \in CallTimes(o) :
         LET res == _ai_refined_analysis(o, n, rough_result, policy)
             t0 == TimeAfterBackoff(retry_count)
         IN
         /\ o # "refined" => n = 1
         /\ o \notin Stage2NoResponse => ~policy
         /\ wt' = t0 + d
         /\ ai_log' = Append(AfterBackoff(retry_count),
                             Event("attempt", retry_count, t0, d, o, AttemptAccepted(res), TRUE))
         /\ IF AttemptAccepted(res)
            THEN /\ stage2_ret' = EnsureRecommendations(res, rough_result)
                 /\ wpc' = "merge"
                 /\ retry_count' = retry_count
            ELSE /\ stage2_ret' = stage2_ret
                 /\ wpc' = wpc
                 /\ retry_count' = retry_count + 1
    /\ UNCHANGED <<rough_result, worker_result, mpc, waited, ai_result>>
    /\ UNCHANGED news_item
    /\ UNCHANGED <<chainVars, loopVars, scoreVars, storeVars, fetcherVars>>

\* lines 464-466: all iterations failed, return None
Worker_Exhausted ==
    /\ wpc = "attempt" /\ retry_count >= max_retries
    /\ stage2_ret' = NoneResult
    /\ wpc' = "merge"
    /\ UNCHANGED <<wt, rough_result, retry_count, ai_log, worker_result, mpc, waited, ai_result>>
    /\ UNCHANGED news_item
    /\ UNCHANGED <<chainVars, loopVars, scoreVars, storeVars, fetcherVars>>

\* lines 394-409: merge the stage-2 value into the result of the worker
Worker_Merge ==
    /\ wpc = "merge"
    /\ worker_result' = MergeStage2(stage2_ret, rough_result)
    /\ wpc' = "done"
    /\ ai_result' = ReturnedAfter(ai_result, worker_result', mpc = "returned", wpc' = "done")
    /\ UNCHANGED <<wt, rough_result, retry_count, stage2_ret, ai_log, mpc, waited>>
    /\ UNCHANGED news_item
    /\ UNCHANGED <<chainVars, loopVars, scoreVars, storeVars, fetcherVars>>

\* lines 350-357: join returned because the worker finished in time
Main_JoinDone ==
    /\ mpc = "joining"
    /\ wpc = "done" /\ JoinWait(wt) = wt
    /\ ai_result' = worker_result
    /\ waited' = JoinWait(wt)
    /\ mpc' = "returned"
    /\ UNCHANGED workerVars
    /\ UNCHANGED news_item
    /\ UNCHANGED <<chainVars, loopVars, scoreVars, storeVars, fetcherVars>>

\* lines 350-354: join timed out and the worker is still alive
Main_JoinTimeout ==
    /\ mpc = "joining"
    /\ StillAlive(wpc, wt)
    /\ ai_result' = TimeoutResult
    /\ waited' = JoinWait(AI_TIMEOUT)
    /\ mpc' = "returned"
    /\ UNCHANGED workerVars
    /\ UNCHANGED news_item
    /\ UNCHANGED <<chainVars, loopVars, scoreVars, storeVars, fetcherVars>>

\* what the loop did with the item it observed last
Observation(id, was_marked, kind, scored, enriched, stored, strength) ==
    [id |-> id, marked |-> was_marked, kind |-> kind, scored |-> scored,
     enriched |-> enriched, stored |-> stored, strength |-> strength]

NoObservation == Observation(<<>>, FALSE, "none", FALSE, FALSE, FALSE, 0)

\* the loop variables while the loop is not being modelled
LoopIdle ==
    /\ lpc = "idle"
    /\ monitoring = FALSE
    /\ stop_event = FALSE
    /\ scan_interval = 300
    /\ now = 0
    /\ last_cleanup_time = 0
    /\ processed_news = {}
    /\ latest_news = <<>>
    /\ idx = 1
    /\ records = {}
    /\ last_obs = NoObservation
    /\ marked = {}
    /\ ticks = 0
    /\ fetch_threads = 0
    /\ oldest_insert = -1

\* the pipeline variables while no item is being enriched
PipeIdle ==
    /\ wpc = "idle"
    /\ wt = 0
    /\ rough_result = NoRough
    /\ retry_count = 0
    /\ stage2_ret = NoResult
    /\ ai_log = <<>>
    /\ worker_result = NoResult
    /\ mpc = "idle"
    /\ waited = 0
    /\ ai_result = NoResult
    /\ news_item = NewsTitle(FALSE, {})

\* the failover chain variables while the chain is not being modelled
ChainIdle ==
    /\ today = 1
    /\ toutiao_configured = TRUE
    /\ daily_call_count = 0
    /\ last_reset_date = 1
    /\ count_file = NoFile
    /\ cpc = "idle"
    /\ limit = 0
    /\ srcIdx = 1
    /\ called = <<>>
    /\ served = <<>>
    /\ http_requests = 0
    /\ news_list = NotReturned
    /\ counted_calls = 0
    /\ restarts = 0
    /\ toutiao_outcome = "none"

\* _analyze_with_ai_timeout has started the worker thread and joins it
InitPipeline ==
    /\ ChainIdle
    /\ wpc = "stage1"
    /\ wt = 0
    /\ rough_result = NoRough
    /\ retry_count = 0
    /\ stage2_ret = NoResult
    /\ ai_log = <<>>
    /\ worker_result = NoResult
    /\ mpc = "joining"
    /\ waited = 0
    /\ ai_result = NoResult
    /\ news_item \in NewsTitles
    /\ LoopIdle
    /\ ScoreIdle
    /\ StoreIdle
    /\ FetchersIdle

\* stop_monitoring (lines 1575-1581) called while the worker is in
\* time.sleep: the settling delay of line 389 or the backoff of line 428
Stop_DuringSleep ==
    /\ ~stop_event
    /\ \/ wpc = "settle"
       \/ wpc = "attempt" /\ 0 < retry_count /\ retry_count < max_retries
    /\ monitoring' = FALSE
    /\ stop_event' = TRUE
    /\ UNCHANGED <<lpc, scan_interval, now, last_cleanup_time, processed_news,
                   latest_news, idx, records, last_obs, marked, ticks,
                   fetch_threads, oldest_insert>>
    /\ UNCHANGED <<chainVars, pipeVars, scoreVars, storeVars, fetcherVars>>

NextPipeline ==
    \/ Worker_Stage1
    \/ Worker_Hang
    \/ Worker_Legacy
    \/ Worker_Settle
    \/ Worker_AttemptNoPrompt
    \/ Worker_Attempt
    \/ Worker_Exhausted
    \/ Worker_Merge
    \/ Main_JoinDone
    \/ Main_JoinTimeout
    \/ Stop_DuringSleep

SpecPipeline == InitPipeline /\ [][NextPipeline]_vars

(***************************************************************************)
(* Polling loop: RealtimeCCTVAIMonitor._monitoring_loop                    *)
(***************************************************************************)

\* titles and source names are strings, held as sequences of characters; two of
\* the three items have the same title followed by source
NewsItems ==
    {[title |-> <<"a">>, source |-> <<"c">>],
     [title |-> <<"a">>, source |-> <<"b", "c">>],
     [title |-> <<"a", "b">>, source |-> <<"c">>]}

\* _generate_news_id: the digest of title followed by source; the digest is
\* taken to be free of collisions, so the hashed string stands for it
_generate_news_id(news) == news.title \o news.source

\* batches the failover chain may hand to the loop: 1..MaxBatch items
Batches == UNION {[1..n -> NewsItems] : n \in 1..MaxBatch}

\* a defect of the loop: the ledger is not consulted
IsProcessed_Never(id) == FALSE

\* line 180: news_id in self.processed_news
IsProcessed(id) == id \in processed_news

\* a defect of the threshold test: a score equal to the threshold is low
IsImportant_Strict(strength) == strength > importance_threshold

\* line 193: scores['total_strength'] >= self.importance_threshold
IsImportant(strength) == strength >= importance_threshold

\* composite scores _compute_news_strength may return, in thousandths
Strengths == {450, 500}

\* every dictionary the worker of _analyze_with_ai_timeout can produce
WorkerResults ==
    {RawResult(generate_stock_recommendations(o, recs, TRUE)) :
        o \in AIOutcomes, recs \in RoughRecLists}
    \cup {RoughOnlyResult(Rough(k, <<>>, TRUE)) : k \in {"json", "parse_error", "text_format"}}
    \cup {_generate_fallback_recommendations(t) :
            t \in SUBSET {FallbackKeywords[i] : i \in 1..Len(FallbackKeywords)}}
    \cup {MergeStage2(EnsureRecommendations(
                        _ai_refined_analysis(o, n, Rough("json", recs, TRUE), p),
                        Rough("json", recs, TRUE)),
                      Rough("json", recs, TRUE)) :
            o \in Stage2Outcomes, n \in 1..MaxRecs, recs \in RoughRecLists \ {<<>>}, p \in BOOLEAN}
    \cup {MergeStage2(NoneResult, Rough("json", recs, FALSE)) : recs \in RoughRecLists \ {<<>>}}

\* every value _analyze_with_ai_timeout can return
PipelineResults == WorkerResults \cup {TimeoutResult}

\* lines 1464-1468: the list _display_important_news prints
DisplayRecs(res) ==
    IF res.has_final /\ res.final_recommendations # <<>>
    THEN res.final_recommendations
    ELSE res.recommendations

\* lines 1464-1477: _display_important_news raises on a result that is not a
\* dictionary
MustRaiseOnDisplay(res) == res.status = "malformed"

\* line 1477: the display may raise on a falsy value that is not a dictionary
\* and on a list that came from the AI, whose entries need not be dictionaries
\* and whose confidence_score need not be a number; the entries of the keyword
\* lookup are well formed
MayRaiseOnDisplay(res) ==
    \/ res.status \in {"malformed", "empty"}
    \/ DisplayRecs(res) # <<>> /\ res.status # "fallback_success"

\* how the display can end for the results of the pipeline:
\* <<it must raise, it may raise, the result is the timeout result>>
DisplayClasses ==
    {<<MustRaiseOnDisplay(r), MayRaiseOnDisplay(r), r = TimeoutResult>> : r \in PipelineResults}

\* a defect of the loop condition: the shutdown request is not looked at
LoopCondition_Always(m, e) == TRUE

\* line 119: self.monitoring and not self.stop_event.is_set()
LoopCondition(m, e) == m /\ ~e

\* line 119: while self.monitoring and not self.stop_event.is_set(); a tick
\* starts the fetch thread (lines 140-142)
Loop_Check ==
    /\ lpc = "check"
    /\ IF LoopCondition(monitoring, stop_event)
       THEN /\ ticks < MaxTicks
            /\ ticks' = ticks + 1
            /\ fetch_threads' = fetch_threads + 1
            /\ lpc' = "fetch"
       ELSE /\ ticks' = ticks
            /\ fetch_threads' = fetch_threads
            /\ lpc' = "stopped"
    /\ UNCHANGED <<monitoring, stop_event, scan_interval, now, last_cleanup_time,
                   processed_news, latest_news, idx, records, last_obs, marked,
                   oldest_insert>>
    /\ UNCHANGED <<chainVars, pipeVars, scoreVars, storeVars, fetcherVars>>

\* lines 126-162: the fetch thread delivers a batch within 90 s
Loop_FetchBatch ==
    /\ lpc = "fetch"
    /\ \E b \in Batches : latest_news' = b
    /\ fetch_threads' = fetch_threads - 1
    /\ lpc' = "purge"
    /\ UNCHANGED <<monitoring, stop_event, scan_interval, now, last_cleanup_time,
                   processed_news, idx, records, last_obs, marked, ticks, oldest_insert>>
    /\ UNCHANGED <<chainVars, pipeVars, scoreVars, storeVars, fetcherVars>>

\* lines 149-158: the fetch thread ends without news, with an empty list
\* (every adapter failed) or with status 'error' (get_latest_news raised
\* outside the try of its for loop, e.g. in a print): continue
Loop_FetchSkip ==
    /\ lpc = "fetch"
    /\ latest_news' = <<>>
    /\ fetch_threads' = fetch_threads - 1
    /\ lpc' = "check"
    /\ UNCHANGED <<monitoring, stop_event, scan_interval, now, last_cleanup_time,
                   processed_news, idx, records, last_obs, marked, ticks, oldest_insert>>
    /\ UNCHANGED <<chainVars, pipeVars, scoreVars, storeVars, fetcherVars>>

\* lines 131-141: a fetch thread the loop gave up waiting for ends; its end
\* changes nothing but the number of threads, so it is taken at the head of
\* the loop or during the next fetch
Fetch_AbandonedReturn ==
    /\ lpc \in {"check", "fetch"}
    /\ fetch_threads > (IF lpc = "fetch" THEN 1 ELSE 0)
    /\ fetch_threads' = fetch_threads - 1
    /\ UNCHANGED <<lpc, monitoring, stop_event, scan_interval, now, last_cleanup_time,
                   processed_news, latest_news, idx, records, last_obs, marked, ticks,
                   oldest_insert>>
    /\ UNCHANGED <<chainVars, pipeVars, scoreVars, storeVars, fetcherVars>>

\* lines 145-147: the fetch thread is still alive after 90 s: continue
Loop_FetchTimeout ==
    /\ lpc = "fetch"
    /\ now' = now + FetchTimeout
    /\ latest_news' = <<>>
    /\ lpc' = "check"
    /\ UNCHANGED <<monitoring, stop_event, scan_interval, last_cleanup_time,
                   processed_news, idx, records, last_obs, marked, ticks,
                   fetch_threads, oldest_insert>>
    /\ UNCHANGED <<chainVars, pipeVars, scoreVars, storeVars, fetcherVars>>

\* a defect of the purge: the ledger is cleared at every tick
PurgeDue_Always(t, last) == TRUE

\* line 169: (datetime.now() - self.last_cleanup_time).total_seconds() > 7200
PurgeDue(t, last) == t - last > RetentionWindow

\* lines 168-173: clear the ledger when the last cleanup is more than 7200 s ago
Loop_Purge ==
    /\ lpc = "purge"
    /\ IF PurgeDue(now, last_cleanup_time)
       THEN /\ processed_news' = {}
            /\ marked' = {}
            /\ oldest_insert' = -1
            /\ last_cleanup_time' = now
       ELSE UNCHANGED <<processed_news, marked, oldest_insert, last_cleanup_time>>
    /\ idx' = 1
    /\ lpc' = "items"
    /\ UNCHANGED <<monitoring, stop_event, scan_interval, now, latest_news,
                   records, last_obs, ticks, fetch_threads>>
    /\ UNCHANGED <<chainVars, pipeVars, scoreVars, storeVars, fetcherVars>>

\* lines 175-216: the body of the for loop for an item already in the ledger
Loop_ItemSkip ==
    /\ lpc = "items" /\ idx <= Len(latest_news)
    /\ LET id == _generate_news_id(latest_news[idx]) IN
         /\ IsProcessed(id)
         /\ last_obs' = Observation(id, id \in marked, "skip", FALSE, FALSE, FALSE, 0)
    /\ idx' = idx + 1
    /\ UNCHANGED <<lpc, monitoring, stop_event, scan_interval, now, last_cleanup_time,
                   processed_news, latest_news, records, marked, ticks,
                   fetch_threads, oldest_insert>>
    /\ UNCHANGED <<chainVars, pipeVars, scoreVars, storeVars, fetcherVars>>

\* lines 175-214: a new item below the threshold is scored and marked
Loop_ItemLow ==
    /\ lpc = "items" /\ idx <= Len(latest_news)
    /\ LET id == _generate_news_id(latest_news[idx]) IN
         /\ ~IsProcessed(id)
         /\ \E s \in Strengths :
              /\ ~IsImportant(s)
              /\ last_obs' = Observation(id, id \in marked, "low", TRUE, FALSE, FALSE, s)
         /\ processed_news' = processed_news \cup {id}
         /\ marked' = marked \cup {id}
         /\ oldest_insert' = IF processed_news = {} THEN now ELSE oldest_insert
    /\ idx' = idx + 1
    /\ UNCHANGED <<lpc, monitoring, stop_event, scan_interval, now, last_cleanup_time,
                   latest_news, records, ticks, fetch_threads>>
    /\ UNCHANGED <<chainVars, pipeVars, scoreVars, storeVars, fetcherVars>>

\* lines 175-214: a new item at or above the threshold is scored, enriched,
\* saved, displayed and marked; an exception of the display leaves the for loop
Loop_ItemImportant ==
    /\ lpc = "items" /\ idx <= Len(latest_news)
    /\ LET id == _generate_news_id(latest_news[idx]) IN
         /\ ~IsProcessed(id)
         /\ \E s \in Strengths, c \in DisplayClasses, saved \in BOOLEAN, raises \in BOOLEAN :
              /\ IsImportant(s)
              /\ c[1] => raises
              /\ raises => c[2]
              /\ records' = IF saved THEN records \cup {id} ELSE records
              /\ last_obs' = Observation(id, id \in marked,
                                          IF c[3] THEN "abandoned" ELSE "important",
                                          TRUE, TRUE, saved, s)
              /\ IF raises
                 THEN /\ lpc' = "errwait"
                      /\ UNCHANGED <<processed_news, marked, idx, oldest_insert>>
                 ELSE /\ lpc' = lpc
                      /\ processed_news' = processed_news \cup {id}
                      /\ marked' = marked \cup {id}
                      /\ oldest_insert' = IF processed_news = {} THEN now ELSE oldest_insert
                      /\ idx' = idx + 1
    /\ UNCHANGED <<monitoring, stop_event, scan_interval, now, last_cleanup_time,
                   latest_news, ticks, fetch_threads>>
    /\ UNCHANGED <<chainVars, pipeVars, scoreVars, storeVars, fetcherVars>>

\* lines 218-233: the for loop is over
Loop_EndBatch ==
    /\ lpc = "items" /\ idx > Len(latest_news)
    /\ lpc' = "wait"
    /\ UNCHANGED <<monitoring, stop_event, scan_interval, now, last_cleanup_time,
                   processed_news, latest_news, idx, records, last_obs, marked, ticks,
                   fetch_threads, oldest_insert>>
    /\ UNCHANGED <<chainVars, pipeVars, scoreVars, storeVars, fetcherVars>>

\* line 235: self.stop_event.wait(self.scan_interval); the batch is dropped
\* (line 126 of the next tick)
Loop_Wait ==
    /\ lpc = "wait"
    /\ now' = IF stop_event THEN now ELSE now + scan_interval
    /\ latest_news' = <<>>
    /\ idx' = 1
    /\ lpc' = "check"
    /\ UNCHANGED <<monitoring, stop_event, scan_interval, last_cleanup_time,
                   processed_news, records, last_obs, marked, ticks,
                   fetch_threads, oldest_insert>>
    /\ UNCHANGED <<chainVars, pipeVars, scoreVars, storeVars, fetcherVars>>

\* a defect of the handler: the exception ends the monitoring thread
AfterException_Dies == "stopped"

\* lines 119, 237-239: the except clause is inside the while loop, so the
\* loop goes back to its head after the handler
AfterException == "check"

\* lines 237-239: an exception of the tick: self.stop_event.wait(60); the
\* batch is dropped (line 126 of the next tick)
Loop_ErrorWait ==
    /\ lpc = "errwait"
    /\ now' = IF stop_event THEN now ELSE now + ErrorWait
    /\ latest_news' = <<>>
    /\ idx' = 1
    /\ lpc' = AfterException
    /\ UNCHANGED <<monitoring, stop_event, scan_interval, last_cleanup_time,
                   processed_news, records, last_obs, marked, ticks,
                   fetch_threads, oldest_insert>>
    /\ UNCHANGED <<chainVars, pipeVars, scoreVars, storeVars, fetcherVars>>

\* stop_monitoring, called from the console thread
stop_monitoring ==
    /\ monitoring
    /\ monitoring' = FALSE
    /\ stop_event' = TRUE
    /\ UNCHANGED <<lpc, scan_interval, now, last_cleanup_time, processed_news,
                   latest_news, idx, records, last_obs, marked, ticks,
                   fetch_threads, oldest_insert>>
    /\ UNCHANGED <<chainVars, pipeVars, scoreVars, storeVars, fetcherVars>>

\* __init__ and start_monitoring: the monitoring thread is about to start
Init ==
    /\ ChainIdle
    /\ PipeIdle
    /\ ScoreIdle
    /\ StoreIdle
    /\ FetchersIdle
    /\ lpc = "check"
    /\ monitoring = TRUE
    /\ stop_event = FALSE
    /\ scan_interval \in ScanIntervals
    /\ now = 0
    /\ last_cleanup_time = 0
    /\ processed_news = {}
    /\ latest_news = <<>>
    /\ idx = 1
    /\ records = {}
    /\ last_obs = NoObservation
    /\ marked = {}
    /\ ticks = 0
    /\ fetch_threads = 0
    /\ oldest_insert = -1

Next ==
    \/ Loop_Check
    \/ Loop_FetchBatch
    \/ Loop_FetchSkip
    \/ Loop_FetchTimeout
    \/ Fetch_AbandonedReturn
    \/ Loop_Purge
    \/ Loop_ItemSkip
    \/ Loop_ItemLow
    \/ Loop_ItemImportant
    \/ Loop_EndBatch
    \/ Loop_Wait
    \/ Loop_ErrorWait
    \/ stop_monitoring

Spec == Init /\ [][Next]_vars

\* the steps of the monitoring thread
LoopThread ==
    \/ Loop_Check
    \/ Loop_FetchBatch
    \/ Loop_FetchSkip
    \/ Loop_FetchTimeout
    \/ Loop_Purge
    \/ Loop_ItemSkip
    \/ Loop_ItemLow
    \/ Loop_ItemImportant
    \/ Loop_EndBatch
    \/ Loop_Wait
    \/ Loop_ErrorWait

\* the monitoring thread keeps running: every join and every wait of the
\* loop has a timeout (lines 143, 235, 239, 350)
SpecFair == Spec /\ WF_vars(LoopThread)

\* the list a caller shows: final_recommendations, else recommendations
FinalList(res) == IF res.has_final THEN res.final_recommendations ELSE res.recommendations

\* the terminal state of the pipeline a result stands for
Outcome(res) ==
    IF res.status = "fallback_success" THEN "FallbackBasic"
    ELSE IF res.analysis_method = "single_stage" THEN "RoughOnly"
    ELSE IF res.stage2_status = "fallback_enhanced" \/ res.fallback_used THEN "FallbackEnhanced"
    ELSE IF res.analysis_method = "two_stage" THEN "Refined"
    ELSE "none"

\* how the file operations of one save end: all succeed, the write of the
\* analysis record fails, the write of the IMPORTANT_ copy fails, the read or
\* the write of summary.json fails
SaveFaults == {"none", "record", "important_copy", "summary"}

\* lines 1434-1435: len(ai_analysis.get('recommendations', []))
RecommendationsCounted(res) == IF res.has_recs THEN Len(res.recommendations) ELSE 0

\* line 1434 raises on an ai_analysis that has no get: the value that is no
\* dictionary always, the falsy value when it is None
SummaryMustRaise(res) == res.status = "malformed"
SummaryMayRaise(res) == res.status \in {"malformed", "empty"}

\* the results of the pipeline as the save sees them
SaveInputs ==
    {SaveEvent(Outcome(r), Len(FinalList(r)), RecommendationsCounted(r),
               SummaryMustRaise(r), SummaryMayRaise(r), FALSE, FALSE) : r \in PipelineResults}

\* lines 1421-1431: the counters and the running average after one more record
RunningAverage(s, strength) ==
    [s EXCEPT !.exists = TRUE,
              !.total_news = @ + 1,
              !.ai_analyzed = @ + 1,
              !.important_news = @ + (IF strength >= HighStrength THEN 1 ELSE 0),
              !.avg_num = s.avg_num * s.ai_analyzed + strength * s.avg_den,
              !.avg_den = s.avg_den * (s.ai_analyzed + 1)]

\* _update_daily_summary: every exception is swallowed (lines 1451-1452) and
\* leaves summary.json as it was
_update_daily_summary(s, strength, counted, raises, fault) ==
    IF raises \/ fault = "summary" THEN s
    ELSE [RunningAverage(s, strength) EXCEPT !.ai_recommendations_count = @ + counted]

\* _save_analysis_result for one item of the given composite
Store_Save ==
    /\ Len(st_records) < MaxSaves
    /\ \E strength \in SavedStrengths, given \in SaveInputs, fault \in SaveFaults, raises \in BOOLEAN :
         /\ given.must_raise => raises
         /\ raises => given.may_raise
         /\ IF fault = "record"
            THEN /\ UNCHANGED <<st_records, st_summary>>
                 /\ st_last' = given
            ELSE /\ st_records' = Append(st_records, strength)
                 /\ st_summary' =
                       IF fault = "important_copy" /\ strength >= HighStrength
                       THEN st_summary
                       ELSE _update_daily_summary(st_summary, strength, given.counted, raises, fault)
                 /\ st_last' = [given EXCEPT !.record_written = TRUE,
                                          !.summary_written = (st_summary' # st_summary)]
    /\ UNCHANGED st_low
    /\ UNCHANGED <<chainVars, pipeVars, loopVars, scoreVars, fetcherVars>>

\* lines 193, 211-212 of the loop: a new item scored below the threshold is
\* neither enriched nor saved
Store_ObserveLow ==
    /\ st_low < MaxSaves
    /\ st_low' = st_low + 1
    /\ UNCHANGED <<st_records, st_summary, st_last>>
    /\ UNCHANGED <<chainVars, pipeVars, loopVars, scoreVars, fetcherVars>>

(***************************************************************************)
(* Fetch threads of the loop in the Toutiao adapter                        *)
(***************************************************************************)

\* the chain variables a fetch thread leaves alone in the adapter
chainRest == <<today, toutiao_configured, cpc, limit, srcIdx, called, served,
               http_requests, news_list, counted_calls, restarts, toutiao_outcome>>

\* loop lines 131-143: a fetch thread is started and joined; the loop starts
\* one only when it joins none
Fetcher_Start(f) ==
    /\ joined = 0
    /\ fpc[f] = "idle"
    /\ fpc' = [fpc EXCEPT ![f] = "check"]
    /\ joined' = f
    /\ UNCHANGED <<fread, daily_call_count, last_reset_date, count_file, chainRest>>
    /\ UNCHANGED <<pipeVars, loopVars, scoreVars, storeVars>>

\* loop lines 145-147: the join timed out; the thread goes on running
Fetcher_Abandon(f) ==
    /\ joined = f
    /\ fpc[f] \in {"request", "incr"}
    /\ joined' = 0
    /\ UNCHANGED <<fpc, fread, daily_call_count, last_reset_date, count_file, chainRest>>
    /\ UNCHANGED <<pipeVars, loopVars, scoreVars, storeVars>>

\* manager line 274 and adapter line 100: is_quota_available
Fetcher_Check(f) ==
    /\ fpc[f] = "check"
    /\ daily_call_count' = QuotaCount
    /\ last_reset_date' = today
    /\ count_file' = QuotaFile
    /\ fpc' = [fpc EXCEPT ![f] = IF is_quota_available THEN "request" ELSE "done"]
    /\ UNCHANGED <<fread, joined, chainRest>>
    /\ UNCHANGED <<pipeVars, loopVars, scoreVars, storeVars>>

\* adapter lines 107-115: requests.get returns or raises; after a response
\* the thread reads the counter for self.daily_call_count += 1
Fetcher_Response(f) ==
    /\ fpc[f] = "request"
    /\ \E o \in ToutiaoOutcomes :
         IF ResponseReceived(o)
         THEN /\ fread' = [fread EXCEPT ![f] = daily_call_count]
              /\ fpc' = [fpc EXCEPT ![f] = "incr"]
         ELSE /\ fread' = fread
              /\ fpc' = [fpc EXCEPT ![f] = "done"]
    /\ UNCHANGED <<joined, daily_call_count, last_reset_date, count_file, chainRest>>
    /\ UNCHANGED <<pipeVars, loopVars, scoreVars, storeVars>>

\* adapter lines 115-116: the counter is written and saved
Fetcher_Increment(f) ==
    /\ fpc[f] = "incr"
    /\ daily_call_count' = fread[f] + 1
    /\ count_file' = _save_daily_count(today, fread[f] + 1)
    /\ fpc' = [fpc EXCEPT ![f] = "done"]
    /\ fread' = [fread EXCEPT ![f] = 0]
    /\ UNCHANGED <<joined, last_reset_date, chainRest>>
    /\ UNCHANGED <<pipeVars, loopVars, scoreVars, storeVars>>

\* the thread leaves the chain; the join of the loop returns if it still waits
Fetcher_Finish(f) ==
    /\ fpc[f] = "done"
    /\ fpc' = [fpc EXCEPT ![f] = "idle"]
    /\ joined' = IF joined = f THEN 0 ELSE joined
    /\ UNCHANGED <<fread, daily_call_count, last_reset_date, count_file, chainRest>>
    /\ UNCHANGED <<pipeVars, loopVars, scoreVars, storeVars>>

\* counter values the adapter starts the day with
InitCounts == {daily_limit - 2, daily_limit - 1, daily_limit}

\* the adapter has loaded its counter; no fetch thread runs
InitFetchers ==
    /\ today = 1
    /\ toutiao_configured = TRUE
    /\ \E c \in InitCounts :
         /\ daily_call_count = c
         /\ count_file = CountFile(1, c)
         /\ counted_calls = c
    /\ last_reset_date = 1
    /\ cpc = "idle"
    /\ limit = 0
    /\ srcIdx = 1
    /\ called = <<>>
    /\ served = <<>>
    /\ http_requests = 0
    /\ news_list = NotReturned
    /\ restarts = 0
    /\ toutiao_outcome = "none"
    /\ PipeIdle
    /\ LoopIdle
    /\ ScoreIdle
    /\ StoreIdle
    /\ FetchersIdle

NextFetchers ==
    \E f \in Fetchers :
        \/ Fetcher_Start(f)
        \/ Fetcher_Abandon(f)
        \/ Fetcher_Check(f)
        \/ Fetcher_Response(f)
        \/ Fetcher_Increment(f)
        \/ Fetcher_Finish(f)

SpecFetchers == InitFetchers /\ [][NextFetchers]_vars

\* a day without records and without summary.json
InitStore ==
    /\ ChainIdle
    /\ PipeIdle
    /\ LoopIdle
    /\ ScoreIdle
    /\ st_records = <<>>
    /\ st_summary = NewSummary
    /\ st_low = 0
    /\ st_last = NoSave
    /\ FetchersIdle

NextStore == Store_Save \/ Store_ObserveLow

SpecStore == InitStore /\ [][NextStore]_vars

\* an item arrives and the clock stands at the origin
InitScore ==
    /\ ChainIdle
    /\ PipeIdle
    /\ LoopIdle
    /\ StoreIdle
    /\ FetchersIdle
    /\ sc_item \in ScoreItems
    /\ sc_now = 0
    /\ sc_last = NoScore
    /\ sc_prev = NoScore

NextScore ==
    \/ Score_Tick
    \/ Score_Call

SpecScore == InitScore /\ [][NextScore]_vars

InitFiles ==
    {NoFile, CorruptFile} \cup
    {CountFile(d, c) : d \in 0..1, c \in {0, daily_limit - 2, daily_limit}}

\* NewsSourceManager.__init__ and ToutiaoNewsAdapter.__init__
InitChain ==
    /\ today = 1
    /\ toutiao_configured \in BOOLEAN
    /\ \E f \in InitFiles :
         /\ daily_call_count = IF toutiao_configured THEN _load_daily_count(f, 1) ELSE 0
         /\ count_file = IF toutiao_configured THEN _load_daily_count_file(f, 1) ELSE f
         /\ counted_calls = IF toutiao_configured /\ f.state = "ok" /\ f.date = 1
                            THEN f.count ELSE 0
    /\ last_reset_date = 1
    /\ cpc = "idle"
    /\ limit = 0
    /\ srcIdx = 1
    /\ called = <<>>
    /\ served = <<>>
    /\ http_requests = 0
    /\ news_list = NotReturned
    /\ restarts = 0
    /\ toutiao_outcome = "none"
    /\ PipeIdle
    /\ LoopIdle
    /\ ScoreIdle
    /\ StoreIdle
    /\ FetchersIdle

NextChain ==
    \/ Manager_Start
    \/ Manager_ToutiaoNoQuota
    \/ Manager_ToutiaoFetch
    \/ Manager_CCTVFetch
    \/ Manager_AllFailed
    \/ Manager_Done
    \/ Restart
    \/ DayChange

SpecChain == InitChain /\ [][NextChain]_vars

(***************************************************************************)
(* Properties of the failover chain                                        *)
(***************************************************************************)

\* rank of an adapter in self.sources
Priority(src) == CHOOSE i \in 1..Len(sources) : sources[i] = src

\* C1: within one call of get_latest_news the adapters are called in the
\* order of self.sources (Toutiao before CCTV); an adapter that returned a
\* non-empty batch is the last one called, and the call returns exactly
\* that adapter's batch.
C1_FirstSuccessWins ==
    /\ \A i, j \in 1..Len(called) : i < j => Priority(called[i]) < Priority(called[j])
    /\ \A i \in 1..Len(served) :
         NonEmpty(served[i]) =>
            /\ i = Len(called)
            /\ cpc \in {"returned", "idle"}
            /\ news_list = served[i]

\* C1 witness: Toutiao delivered a batch, so CCTV was not called
C1_Witness ==
    /\ cpc = "returned"
    /\ called = <<"toutiao">>
    /\ NonEmpty(news_list)
    /\ news_list = served[1]

\* every adapter called in this call was unavailable
AllUnavailable == \A i \in 1..Len(served) : ~NonEmpty(served[i])

AtToutiaoExhausted ==
    /\ cpc = "loop" /\ srcIdx <= Len(sources) /\ sources[srcIdx] = "toutiao"
    /\ ~is_quota_available

\* C13: with the quota exhausted the step of the chain at the Toutiao adapter
\* sends no HTTP request, leaves the call counter unchanged and moves to the
\* next source; the call then returns what the CCTV adapter delivered.
C13_ExhaustedFallsThrough ==
    /\ [][AtToutiaoExhausted =>
            /\ http_requests' = http_requests
            /\ daily_call_count' = daily_call_count
            /\ called' = called
            /\ cpc' = "loop"
            /\ srcIdx' = srcIdx + 1]_vars
    /\ []((cpc = "returned" /\ toutiao_configured /\ ~is_quota_available
            /\ http_requests = 0) =>
            /\ called = <<"cctv">>
            /\ limit >= 1 => (NonEmpty(served[1]) /\ news_list = served[1])
            /\ limit = 0 => news_list = ListV(<<>>))

\* C13 witness: the quota is exhausted, no request was sent and the call
\* returned the batch of the CCTV adapter
C13_Witness ==
    /\ cpc = "returned"
    /\ toutiao_configured
    /\ ~is_quota_available
    /\ http_requests = 0
    /\ called = <<"cctv">>
    /\ NonEmpty(news_list)
    /\ news_list = served[1]

\* C14: a newly constructed adapter starts with the persisted count when
\* toutiao_api_count.json is readable and dated today, and with 0 when the
\* file is missing, unreadable or dated another day; the construction
\* completes in each of these cases.
C14_LoadPersistedCount ==
    [][restarts' # restarts =>
         /\ daily_call_count' =
               IF count_file.state = "ok" /\ count_file.date = today
               THEN count_file.count ELSE 0
         /\ cpc' = "idle"]_vars

\* C14 witness: an adapter constructed again on the day of its last counted
\* call has the count of the file
C14_Witness ==
    /\ restarts = 1
    /\ cpc = "idle"
    /\ count_file.state = "ok" /\ count_file.date = today
    /\ count_file.count = daily_limit - 1
    /\ daily_call_count = daily_limit - 1

(***************************************************************************)
(* Properties of the enrichment pipeline                                   *)
(***************************************************************************)

\* the stage-2 loop iterations recorded so far
Attempts == SelectSeq(ai_log, LAMBDA e : e.ev = "attempt")

\* the result carries a recommendation list / a status tag
HasRecList(res) == res.has_recs \/ res.has_final
HasStatusTag(res) ==
    res.status # "absent" \/ res.analysis_method # "absent" \/ res.stage2_status # "absent"

\* stage 1 delivered a parsed dictionary
Stage1Succeeded == rough_result.kind = "json"

\* C3 (as claimed): every result returned by _analyze_with_ai_timeout carries
\* a recommendation list and a status tag, and the list is empty only in
\* RoughOnly after a stage 1 that succeeded with zero recommendations.
C3_Claim ==
    mpc = "returned" =>
        /\ HasRecList(ai_result)
        /\ HasStatusTag(ai_result)
        /\ FinalList(ai_result) = <<>> =>
              (Outcome(ai_result) = "RoughOnly" /\ Stage1Succeeded)

\* what the stage-1 AI call gave when it failed
Stage1Failures == {"http_error", "exception", "timeout", "parse_error", "text_format"}

\* C4 (as claimed): when stage 1 fails, the worker makes no further AI call
\* and ends in FallbackBasic with at least one recommendation.
C4_Claim ==
    (wpc = "done" /\ ai_log # <<>> /\ ai_log[1].res \in Stage1Failures) =>
        /\ \A i \in 2..Len(ai_log) : ~ai_log[i].ai
        /\ Outcome(worker_result) = "FallbackBasic"
        /\ Len(FinalList(worker_result)) >= 1

\* largest confidence first
SortedDesc(s) == \A i \in 1..(Len(s) - 1) : s[i].confidence >= s[i + 1].confidence

\* C5 (as claimed): stage 1 succeeded with k >= 1 recommendations and every
\* stage-2 attempt timed out: the result returned for the item is
\* FallbackEnhanced, holds exactly k entries, largest adjusted confidence first.
C5_Claim ==
    (/\ mpc = "returned" /\ wpc = "done"
     /\ Stage1Succeeded /\ Len(rough_result.recommendations) >= 1
     /\ Attempts # <<>>
     /\ \A i \in 1..Len(Attempts) : Attempts[i].res = "timeout")
    => /\ Outcome(ai_result) = "FallbackEnhanced"
       /\ Len(FinalList(ai_result)) = Len(rough_result.recommendations)
       /\ SortedDesc(FinalList(ai_result))

\* stage-2 responses that are missing, unparseable or without a ranked list
Stage2BadResponses == {"short", "http_error", "conn_error", "timeout", "not_json", "no_final"}

\* C6 (as claimed): a stage-2 attempt whose response is missing, unparseable
\* or has an empty list is treated as failed, and while attempts remain
\* another attempt follows it.
C6_Claim ==
    \A i \in 1..Len(ai_log) :
        (ai_log[i].ev = "attempt" /\ ai_log[i].res \in Stage2BadResponses) =>
            /\ ~ai_log[i].ok
            /\ (wpc \in {"merge", "done"} /\ ai_log[i].k < max_retries - 1) =>
                  \E j \in (i + 1)..Len(ai_log) : ai_log[j].ev = "attempt"

\* C7: the stage-2 loop makes at most max_retries attempts, numbered from 0,
\* none after an accepted one; the attempt with index k >= 1 directly follows
\* a sleep of 2^k seconds, the first attempt follows no such sleep; None is
\* returned exactly when max_retries attempts were made and all failed.
C7_RetryBackoff ==
    /\ Len(Attempts) <= max_retries
    /\ \A i \in 1..Len(Attempts) : Attempts[i].k = i - 1
    /\ \A i \in 1..(Len(Attempts) - 1) : ~Attempts[i].ok
    /\ \A j \in 1..Len(ai_log) :
         ai_log[j].ev = "attempt" =>
            /\ j > 1
            /\ IF ai_log[j].k >= 1
               THEN /\ ai_log[j - 1].ev = "backoff"
                    /\ ai_log[j - 1].dur = 2 ^ ai_log[j].k
                    /\ ai_log[j].at = ai_log[j - 1].at + 2 ^ ai_log[j].k
               ELSE ai_log[j - 1].ev # "backoff"
    /\ \A j \in 1..Len(ai_log) :
         ai_log[j].ev = "backoff" =>
            j < Len(ai_log) /\ ai_log[j + 1].ev = "attempt" /\ ai_log[j + 1].k = ai_log[j].k
    /\ stage2_ret = NoneResult <=>
            /\ wpc \in {"merge", "done", "hung"}
            /\ Len(Attempts) = max_retries
            /\ \A i \in 1..Len(Attempts) : ~Attempts[i].ok

\* C7 witness: three failed attempts, sleeps of 2 s and 4 s, None returned
C7_Witness ==
    /\ wpc = "merge"
    /\ stage2_ret = NoneResult
    /\ Len(Attempts) = max_retries
    /\ \E i, j \in 1..Len(ai_log) :
         /\ ai_log[i].ev = "backoff" /\ ai_log[i].dur = 2
         /\ ai_log[j].ev = "backoff" /\ ai_log[j].dur = 4

\* the worker has entered stage 2
Stage2Entered == \E i \in 1..Len(ai_log) : ai_log[i].ev \in {"settle", "backoff", "attempt"}

\* C8: stage 2 is entered only after a stage 1 with at least one
\* recommendation, and always then; a stage 1 with zero recommendations ends
\* in RoughOnly with an empty final list and no stage-2 step; the first
\* stage-2 attempt directly follows the settling sleep of 3 s.
C8_Stage2Gate ==
    /\ Stage2Entered => (Stage1Succeeded /\ Len(rough_result.recommendations) >= 1)
    /\ (wpc = "done" /\ Stage1Succeeded /\ Len(rough_result.recommendations) >= 1)
          => Attempts # <<>>
    /\ (wpc = "done" /\ Stage1Succeeded /\ Len(rough_result.recommendations) = 0)
          => /\ Outcome(worker_result) = "RoughOnly"
             /\ worker_result.has_final
             /\ worker_result.final_recommendations = <<>>
             /\ ~Stage2Entered
    /\ \A j \in 1..Len(ai_log) :
         (ai_log[j].ev = "attempt" /\ ai_log[j].k = 0) =>
            /\ j > 1
            /\ ai_log[j - 1].ev = "settle"
            /\ ai_log[j - 1].dur = 3
            /\ ai_log[j].at >= ai_log[j - 1].at + 3

\* C8 witness: stage 1 gave recommendations and the first stage-2 attempt
\* was made after the settling sleep
C8_Witness ==
    /\ Stage1Succeeded
    /\ Len(rough_result.recommendations) >= 1
    /\ Len(ai_log) >= 3
    /\ ai_log[2].ev = "settle"
    /\ ai_log[3].ev = "attempt"
    /\ ai_log[3].ai

\* C9: the caller of _analyze_with_ai_timeout has waited at most the timeout
\* of 60 s for the worker when it returns, and it is never blocked by a
\* worker that hangs or runs past the timeout: its return is then possible.
C9_BoundedWait ==
    /\ mpc = "returned" => waited <= 60
    /\ (mpc = "joining" /\ (wpc = "hung" \/ wt >= 60)) => ENABLED Main_JoinTimeout

\* C9 witness: the worker hangs, the caller has returned the timeout result
C9_Witness ==
    /\ wpc = "hung"
    /\ mpc = "returned"
    /\ waited = 60
    /\ ai_result = TimeoutResult

(***************************************************************************)
(* Properties of the polling loop                                          *)
(***************************************************************************)

\* C10: an item whose identifier was added to the ledger, and not purged
\* since, is skipped when it is observed again: it is not scored, not
\* enriched and no record is stored for it.
C10_SeenItemSkipped ==
    last_obs.marked =>
        /\ last_obs.kind = "skip"
        /\ ~last_obs.scored /\ ~last_obs.enriched /\ ~last_obs.stored

\* C10 witness: an item marked in an earlier tick was observed again
C10_Witness ==
    /\ ticks >= 2
    /\ last_obs.marked
    /\ last_obs.kind = "skip"
    /\ last_obs.id \in processed_news

\* an item whose enrichment was abandoned at the timeout does not end the tick:
\* the timeout result is saved and displayed and the for loop goes on
AbandonedItemMovesOn ==
    last_obs.kind = "abandoned" => lpc # "errwait"

\* every result the worker of the enrichment pipeline ends with is one of
\* the results the polling loop is given
WorkerResultsCover ==
    wpc = "done" => worker_result \in WorkerResults

\* the tick that obtained a batch is over: the for loop was left
TickOver == lpc \in {"wait", "errwait"}

\* C11 (as claimed): when a tick that obtained a batch is over, the
\* identifier of every item of the batch is in the ledger.
C11_Claim ==
    TickOver =>
        \A i \in 1..Len(latest_news) : _generate_news_id(latest_news[i]) \in processed_news

\* the step of the for loop that handles a new item: the loop observed the
\* item and either went on to the next item or left the for loop
NewItemStep ==
    /\ lpc = "items" /\ idx <= Len(latest_news)
    /\ last_obs'.scored
    /\ idx' # idx \/ lpc' # lpc

\* C19 (as claimed): a new item is enriched and gets a record if and only if
\* its score reaches the threshold; an item below the threshold is not
\* enriched, gets no record and is marked as seen.
C19_Claim ==
    last_obs.scored =>
        /\ (last_obs.enriched /\ last_obs.stored) <=> last_obs.strength >= importance_threshold
        /\ last_obs.strength < importance_threshold => last_obs.kind = "low"

\* C19 (amended): a new item is enriched if and only if its score reaches
\* the threshold, and only such an item gets a record; the step of an item
\* below the threshold adds its identifier to the ledger and leaves the
\* records as they are.
C19_ThresholdGate ==
    /\ [](last_obs.scored =>
            /\ last_obs.enriched <=> last_obs.strength >= importance_threshold
            /\ last_obs.stored => last_obs.strength >= importance_threshold
            /\ last_obs.strength < importance_threshold => last_obs.kind = "low")
    /\ [][(NewItemStep /\ last_obs'.strength < importance_threshold) =>
            /\ last_obs'.id = _generate_news_id(latest_news[idx])
            /\ last_obs'.id \in processed_news'
            /\ records' = records
            /\ lpc' = "items" /\ idx' = idx + 1]_vars

\* C19 witness: an item with a score equal to the threshold was enriched
\* and stored, and an item of the same tick got no record for a failed write
C19_Witness ==
    /\ last_obs.kind = "important"
    /\ last_obs.strength = importance_threshold
    /\ last_obs.enriched /\ last_obs.stored
    /\ last_obs.id \in records
    /\ \E i \in 1..Len(latest_news) :
          /\ _generate_news_id(latest_news[i]) \in processed_news
          /\ _generate_news_id(latest_news[i]) \notin records

\* C20 (as claimed): the step of an item whose record could not be written
\* raises nothing into the loop, adds the item's identifier to the ledger and
\* goes on to the next item of the batch.
C20_Claim ==
    [][(NewItemStep /\ last_obs'.enriched /\ ~last_obs'.stored) =>
            /\ lpc' = "items" /\ idx' = idx + 1
            /\ _generate_news_id(latest_news[idx]) \in processed_news']_vars

\* C21 (as claimed): the loop comes back to its head, where the next fetch
\* starts, only from an interval wait; a tick that is skipped waits like a
\* tick that processed items.
C21_Claim ==
    [][(lpc # "check" /\ lpc' = "check") => lpc \in {"wait", "errwait"}]_vars

\* C22 (as claimed): at most one fetch thread is alive, so at most one
\* thread is inside the failover chain and the quota counter.
C22_Claim == fetch_threads <= 1

\* C23: an exception of a tick takes the loop to its handler and from there
\* back to the head of the loop; the loop ends only at its head, on a
\* shutdown request, and without one the head starts the next tick.
C23_LoopSurvivesException ==
    [][/\ lpc = "errwait" => lpc' \in {"errwait", "check"}
       /\ lpc' = "stopped" => (lpc = "stopped" \/ (lpc = "check" /\ (~monitoring \/ stop_event)))
       /\ (lpc = "check" /\ lpc' # "check" /\ monitoring /\ ~stop_event) => lpc' = "fetch"]_vars

\* C23 witness: the first tick raised, the loop waited 60 s and the second
\* tick is fetching
C23_Witness ==
    /\ lpc = "fetch"
    /\ ticks = 2
    /\ now = ErrorWait
    /\ last_obs.enriched

\* C24: after the shutdown signal no tick is started, a wait that is under
\* way or begins afterwards lets no time pass, and the loop terminates.
C24_ShutdownStopsLoop ==
    /\ [][stop_event => /\ ticks' = ticks
                        /\ lpc' # "fetch" \/ lpc = "fetch"
                        /\ (lpc \in {"wait", "errwait"} /\ lpc' = "check") => now' = now]_vars
    /\ (stop_event ~> lpc = "stopped")

\* C24 witness: the signal arrived after a tick had processed its batch, and
\* the loop has terminated without another tick
C24_Witness ==
    /\ lpc = "stopped"
    /\ stop_event /\ ~monitoring
    /\ ticks = 1
    /\ processed_news # {}
    /\ now = 0

\* the step of the purge that clears a ledger with entries
ClearStep == processed_news # {} /\ processed_news' = {}

\* C30 (as claimed): the ledger is cleared only when its oldest entry is
\* older than the retention window.
C30_Claim ==
    [][ClearStep => now - oldest_insert > RetentionWindow]_vars

\* C30 (amended): the ledger loses entries only by being cleared as a whole,
\* and it is cleared only when the last clearing (or the construction) is
\* more than the retention window ago.
C30_PurgeSinceLastCleanup ==
    [][/\ processed_news \subseteq processed_news' \/ processed_news' = {}
       /\ ClearStep => /\ lpc = "purge"
                       /\ now - last_cleanup_time > RetentionWindow
                       /\ last_cleanup_time' = now]_vars

\* C30 witness: a ledger that held the item observed last has just been
\* cleared, more than the retention window after the construction
C30_Witness ==
    /\ lpc = "items" /\ idx = 1
    /\ last_obs.kind \in {"low", "skip"}
    /\ processed_news = {}
    /\ last_cleanup_time = now
    /\ now > RetentionWindow

\* the for loop of get_latest_news stands at the Toutiao adapter
AtToutiao == cpc = "loop" /\ srcIdx <= Len(sources) /\ sources[srcIdx] = "toutiao"

C27_FallbackBasicNonEmpty ==
    worker_result.status = "fallback_success" =>
        LET f == worker_result.final_recommendations IN
        /\ Len(f) >= 1 /\ Len(f) <= FallbackMax
        /\ worker_result.recommendations = f
        /\ IF \E k \in 1..Len(FallbackKeywords) : FallbackKeywords[k] \in news_item.keywords
           THEN \E k \in 1..Len(FallbackKeywords) :
                  /\ FallbackKeywords[k] \in news_item.keywords
                  /\ \A j \in 1..(k - 1) : FallbackKeywords[j] \notin news_item.keywords
                  /\ f = <<Rec(2 * k - 1, Absent, 600, FALSE, FALSE),
                           Rec(2 * k, Absent, 600, FALSE, FALSE)>>
           ELSE f = <<Rec(1, Absent, 500, FALSE, FALSE)>>

\* C27 witness: a title with the third and the fourth key got the two
\* entries of the third key
C27_Witness ==
    /\ worker_result.status = "fallback_success"
    /\ news_item.keywords = {"tech", "infra"}
    /\ Len(worker_result.final_recommendations) = 2
    /\ worker_result.final_recommendations[1].id = 5

\* the rule-based fallback of stage 2 produced the value of stage 2
RuleFallbackRan == stage2_ret.stage2_status \in {"fallback_enhanced", "basic_fallback"}

\* C28 (as claimed): each entry of the rule-based fallback carries the
\* stage-1 confidence plus 0.05 when its rationale holds a hot keyword and
\* plus 0.1 when the news item holds a policy-authority term, capped at
\* 0.95, and the list is in non-increasing order of the adjusted confidence.
C28_Claim ==
    stage2_ret.stage2_status = "fallback_enhanced" =>
        LET f == stage2_ret.final_recommendations
            recs == rough_result.recommendations
        IN /\ \A i \in 1..Len(f) :
                f[i].confidence =
                    Min(ConfidenceCap,
                        OriginalConfidence(recs[f[i].id])
                        + (IF recs[f[i].id].hot THEN HotBoost ELSE 0)
                        + (IF news_item.policy THEN PolicyBoost ELSE 0))
           /\ \A i \in 1..(Len(f) - 1) : f[i].confidence >= f[i + 1].confidence

\* C29: when the rule adjustment errors on a confidence that is no number,
\* the fallback returns the stage-1 list itself, all entries in their order
\* and with their fields, and it returns the adjusted list otherwise.
C29_FallbackReturnsOriginal ==
    RuleFallbackRan =>
        LET recs == rough_result.recommendations IN
        IF \E i \in 1..Min(Len(recs), TruncLimit) : recs[i].confidence = NonNumeric
        THEN /\ stage2_ret.stage2_status = "basic_fallback"
             /\ stage2_ret.final_recommendations = recs
        ELSE stage2_ret.stage2_status = "fallback_enhanced"

\* C29 witness: the second entry has a confidence that is no number, the
\* first one a hot keyword, and the list came back as it was
C29_Witness ==
    /\ stage2_ret.stage2_status = "basic_fallback"
    /\ Len(rough_result.recommendations) = 2
    /\ rough_result.recommendations[1].hot
    /\ rough_result.recommendations[1].confidence # NonNumeric
    /\ rough_result.recommendations[2].confidence = NonNumeric
    /\ stage2_ret.final_recommendations = rough_result.recommendations

RECURSIVE SumOf(_)
SumOf(s) == IF s = <<>> THEN 0 ELSE Head(s) + SumOf(Tail(s))

\* C25 (as claimed): the summary of the day counts every analysis record
\* written that day: ai_analyzed is their number, important_news the number
\* of those with a composite of 0.8 or more, average_strength their mean.
C25_Claim ==
    /\ st_summary.ai_analyzed = Len(st_records)
    /\ st_summary.important_news =
            Cardinality({i \in 1..Len(st_records) : st_records[i] >= HighStrength})
    /\ st_summary.avg_num * Len(st_records) = SumOf(st_records) * st_summary.avg_den

\* C31 (as claimed): total_news counts every new item observed that day, the
\* items below the threshold included, so it is at least the number of items
\* below the threshold plus the enriched items the summary counts.
C31_Claim ==
    st_summary.total_news >= st_low + st_summary.ai_analyzed

\* the four terminal states of the pipeline
TerminalOutcomes == {"Refined", "FallbackEnhanced", "RoughOnly", "FallbackBasic"}

\* a save that wrote its record and the summary
CountedSave ==
    /\ Len(st_records') = Len(st_records) + 1
    /\ st_last'.record_written
    /\ st_last'.summary_written

\* C32 (as claimed): for every stored record whose result is one of the four
\* terminal outcomes, ai_recommendations_count grows by the length of the
\* final list of that record.
C32_Claim ==
    [][(CountedSave /\ st_last'.outcome \in TerminalOutcomes) =>
            st_summary'.ai_recommendations_count =
                st_summary.ai_recommendations_count + st_last'.final]_vars

\* the entries the step appends to the log of the worker
NewEvents == {ai_log'[i] : i \in (Len(ai_log) + 1)..Len(ai_log')}

\* C33 (as claimed): once the shutdown signal is set, a settling or backoff
\* sleep of the pipeline ends before its full delay and no stage-2 attempt
\* is started after a backoff sleep.
C33_Claim ==
    [][stop_event =>
         \A e \in NewEvents :
            /\ e.ev = "settle" => e.dur < SettleDelay
            /\ e.ev = "backoff" => e.dur < BackoffDelay(e.k)
            /\ e.ev = "attempt" => e.k = 0]_vars

\* C34 (as claimed): in every state, with an abandoned fetch thread still
\* running beside the next one, 0 <= daily_call_count <= daily_limit.
C34_Claim ==
    /\ 0 <= daily_call_count
    /\ daily_call_count <= daily_limit

\* C35: when the join returns with the worker still running, the caller gets
\* the timeout result; after the return, no step of the abandoned worker
\* changes that result, the ledger, the stored records or the summary.
C35_LateResultDiscarded ==
    [][/\ (mpc = "joining" /\ mpc' = "returned" /\ wpc # "done") => ai_result' = TimeoutResult
       /\ mpc = "returned" =>
            /\ ai_result' = ai_result
            /\ processed_news' = processed_news
            /\ records' = records
            /\ st_records' = st_records
            /\ st_summary' = st_summary]_vars

\* the worker finished with a refined result after the caller had returned
\* the timeout result
C35_Witness ==
    /\ mpc = "returned"
    /\ ai_result = TimeoutResult
    /\ wpc = "done"
    /\ wt > AI_TIMEOUT
    /\ Outcome(worker_result) = "Refined"

\* C36 (as claimed): while the ledger has not been purged, an item whose
\* identifier already has a stored record gets no second record, also after
\* a tick that ended with an exception.
C36_Claim ==
    [][(NewItemStep /\ last_obs'.stored /\ last_cleanup_time = 0) =>
            last_obs'.id \notin records]_vars

\* the loop handles item x of the batch and its ledger changes
MarksItem(x) ==
    /\ lpc = "items" /\ idx <= Len(latest_news)
    /\ latest_news[idx] = x
    /\ processed_news' # processed_news

\* C37 (as claimed): items that differ in title or source have different
\* identifiers: marking one item never makes the ledger hold the identifier
\* of an item with another (title, source) pair.
C37_Claim ==
    [][\A x \in NewsItems : MarksItem(x) =>
            \A y \in NewsItems \ {x} :
                IsProcessed(_generate_news_id(y))' => IsProcessed(_generate_news_id(y))]_vars

\* C38 (as claimed): the rule adjustment only boosts: an entry whose stage-1
\* confidence is a number in [0, 1] gets an adjusted confidence of at least
\* that number and at most 0.95, and the boost is at most 0.15.
C38_Claim ==
    stage2_ret.stage2_status = "fallback_enhanced" =>
        LET f == stage2_ret.final_recommendations
            recs == rough_result.recommendations
        IN \A i \in 1..Len(f) :
              LET original == recs[f[i].id].confidence IN
              (original >= 0 /\ original <= 1000) =>
                  /\ f[i].confidence >= original
                  /\ f[i].confidence <= ConfidenceCap
                  /\ f[i].confidence - original <= PolicyBoost + HotBoost

\* the upstream sources items are fetched from
UpstreamSources == {"toutiao", "cctv_home", "cctv_api"}

\* C39 (as claimed): every item of the batch the chain returns was fetched
\* from an upstream source in that call; when both CCTV sources fail or give
\* fewer than 3 items the chain returns the empty list.
C39_Claim ==
    cpc = "returned" =>
        \A i \in 1..Len(news_list.items) : news_list.items[i][1] \in UpstreamSources

(***************************************************************************)
(* Properties of the scoring                                               *)
(***************************************************************************)

\* C15: the composite score of every call lies in [0, 1].
C15_CompositeInUnitInterval ==
    sc_last.status # "none" =>
        /\ sc_last.total_strength >= 0
        /\ sc_last.total_strength <= 100000

\* C15 witness: the largest composite, a fresh item of the heaviest source
\* with all policy keywords, a long title and a continuity keyword
C15_Witness ==
    /\ sc_last.status = "ok"
    /\ sc_item.hits = Len(policy_keywords)
    /\ sc_last.recency = 1000 /\ sc_last.hardness = 965 /\ sc_last.persistence = 1000
    /\ sc_last.total_strength = 98845

\* C16: of two calls on an item, the call at the larger elapsed time since
\* publication gives the smaller or equal recency.
C16_RecencyNonIncreasing ==
    (sc_prev.status = "ok" /\ sc_last.status = "ok"
     /\ sc_prev.hours_since_publish <= sc_last.hours_since_publish)
    => sc_prev.recency >= sc_last.recency

\* C16 witness: a call in the tier up to 6 h and a later one beyond 24 h
C16_Witness ==
    /\ sc_prev.status = "ok" /\ sc_last.status = "ok"
    /\ sc_prev.hours_since_publish = 60 /\ sc_prev.recency = 800
    /\ sc_last.hours_since_publish = 250 /\ sc_last.recency = 590

\* C17 (as claimed): two calls on the same item return the same sub-scores
\* and the same composite, also when the clock has advanced between them.
C17_Claim ==
    (sc_prev.status # "none" /\ sc_last.status # "none") =>
        /\ sc_prev.recency = sc_last.recency
        /\ sc_prev.hardness = sc_last.hardness
        /\ sc_prev.persistence = sc_last.persistence
        /\ sc_prev.total_strength = sc_last.total_strength

\* the item of the worked example: source weight 0.95, 3 policy keywords, a
\* title of 40 characters, a continuity keyword, published 2 hours ago
WorkedExample ==
    /\ sc_item = ScoreItem("parsed", 0, "cctv_news", 3, 40, TRUE)
    /\ sc_last.status = "ok"
    /\ sc_last.hours_since_publish = 20

\* C18 (as claimed): the worked example scores 0.8, 0.8, 1.0 and 0.871.
C18_Claim ==
    WorkedExample =>
        /\ sc_last.recency = 800 /\ sc_last.hardness = 800 /\ sc_last.persistence = 1000
        /\ Round3(sc_last.total_strength) = 871

\* C18 (amended): the worked example scores 0.8, 0.8, 1.0 and the composite
\* 0.34 * 0.8 + 0.33 * 0.8 + 0.33 * 1.0 = 0.866.
C18_WorkedExample ==
    WorkedExample =>
        /\ sc_last.recency = 800 /\ sc_last.hardness = 800 /\ sc_last.persistence = 1000
        /\ sc_last.total_strength = total_strength(800, 800, 1000)
        /\ Round3(sc_last.total_strength) = 866

\* C18 witness: the worked example was scored
C18_Witness ==
    /\ WorkedExample
    /\ sc_last.total_strength = 86600

====
